---- MODULE Spec2Model ----
(***************************************************************************)
(* JUSTPLAY client (src/app.js): the Gateway Adapter (apiGet, apiPost,     *)
(* apiPut, apiDelete), the Local Session Store, the Domain Cache           *)
(* (loadStadiums, loadMatches, loadUsers, getStadiumById, getMatchById),   *)
(* the booking, join, create-match, login and profile handlers,            *)
(* navigation and the modal focus manager, as one state machine.           *)
(*                                                                         *)
(* An async handler is a task: it runs to its first await in one step,     *)
(* stays suspended while its request is in flight, and resumes in one step *)
(* when the response settles.  The REST backend is not part of src/: it is *)
(* the environment, modelled from the interface table of the design        *)
(* document (the Srv* definitions).                                        *)
(***************************************************************************)
EXTENDS Integers, Sequences, FiniteSets, Bags, TLC

VARIABLES
  srvStadiums, srvMatches, srvUsers,      \* backend collections
  stadiums, matches, users, currentUser,  \* app.js:10-13
  savedUser,                              \* localStorage justplay_currentUser
  currentStadium, currentMatch,           \* app.js:182-183
  timeSlots,                              \* children of #stadium-time-slots
  matchCards,                             \* cards rendered in #matches-list
  joinBtn,                                \* state of #join-match-btn
  toast,                                  \* the last notice shown
  currentPage, pageHistory,               \* app.js:180-181
  modal,                                  \* the modal elements and their fields
  keydown,                                \* keydown listeners on document
  activeElement,                          \* document.activeElement
  loginForm, matchForm,                   \* the fields of the two forms
  tasks,                                  \* suspended async handlers (a bag)
  last,                                   \* the last handler step and how it ended
  apiCall                                 \* one gateway call, start to settle

srvVars   == <<srvStadiums, srvMatches, srvUsers>>
cacheVars == <<stadiums, matches, users>>
userVars  == <<currentUser, savedUser>>
navVars   == <<currentPage, pageHistory>>
modalVars == <<modal, keydown, activeElement>>
stadiumView == <<currentStadium, timeSlots>>
matchView == <<currentMatch, matchCards, joinBtn>>
viewVars  == <<stadiumView, matchView>>
formVars  == <<loginForm, matchForm>>
vars == <<srvVars, cacheVars, userVars, navVars, modalVars, viewVars, formVars,
          toast, tasks, last, apiCall>>

(***************************************************************************)
(* Bounds                                                                  *)
(***************************************************************************)
MaxTasks == 2
MaxHistory == 3

(***************************************************************************)
(* JavaScript values.  A missing property reads as Undef; a JSON value is  *)
(* a tagged record: null, an array, an object, or a body that does not     *)
(* decode.                                                                 *)
(***************************************************************************)
Undef  == "undefined"
\* `${x}`: an identifier put into a path or a handler attribute
TemplateText(x) == IF x = Undef THEN "'undefined'" ELSE x
NoRec  == [none |-> TRUE]
JsNull == [t |-> "null"]
JsBad  == [t |-> "bad"]
JsArr(s) == [t |-> "arr", v |-> s]
JsObj(e, m, r) == [t |-> "obj", error |-> e, message |-> m, rec |-> r]
Truthy(v) == v.t \in {"arr", "obj"}

(***************************************************************************)
(* Text typed into a field is a sequence of characters; a word counts as   *)
(* one character that is neither a space, a sign nor a digit.  The texts   *)
(* used here have at most one character left once trimmed.  A number is an *)
(* integer or NaN.                                                         *)
(***************************************************************************)
RECURSIVE TrimStart(_)
TrimStart(s) ==
  IF s # <<>> /\ Head(s) = " " THEN TrimStart(Tail(s)) ELSE s

RECURSIVE TrimEnd(_)
TrimEnd(s) ==
  IF s # <<>> /\ s[Len(s)] = " " THEN TrimEnd(SubSeq(s, 1, Len(s) - 1)) ELSE s

\* String.prototype.trim
Trim(s) == TrimEnd(TrimStart(s))

\* the string of a text of at most one character
Str(s) == IF s = <<>> THEN "" ELSE s[1]

Num(n) == [nan |-> FALSE, n |-> n]
NaN == [nan |-> TRUE, n |-> 0]
Digits == <<"0", "1", "2", "3", "4", "5", "6", "7", "8", "9">>
IsDigit(c) == \E d \in 1..10 : Digits[d] = c
DigitValue(c) == (CHOOSE d \in 1..10 : Digits[d] = c) - 1

\* the value of the longest prefix of digits of s, given the value so far
RECURSIVE DigitsValue(_, _)
DigitsValue(s, acc) ==
  IF s # <<>> /\ IsDigit(Head(s))
  THEN DigitsValue(Tail(s), 10 * acc + DigitValue(Head(s)))
  ELSE acc

\* parseInt(text): leading white space, an optional sign, then digits up to
\* the first character that is none; NaN when there is no digit
ParseInt(text) ==
  LET s == TrimStart(text)
      signed == s # <<>> /\ Head(s) \in {"-", "+"}
      body == IF signed THEN Tail(s) ELSE s
  IN  IF body = <<>> \/ ~IsDigit(Head(body)) THEN NaN
      ELSE IF signed /\ Head(s) = "-" THEN Num(0 - DigitsValue(body, 0))
      ELSE Num(DigitsValue(body, 0))

(***************************************************************************)
(* The settled network call: the fetch promise rejected, or a response     *)
(* with a status and a body.                                               *)
(***************************************************************************)
NetSent == [st |-> "sent"]
NetNone == [st |-> "none"]
NetFail == [st |-> "fail"]
Http(status, body) == [st |-> "http", status |-> status, body |-> body]

Ok(status) == status >= 200 /\ status <= 299

ApiErrorText(status) ==
  CASE status = 400 -> "API error: 400"
    [] status = 404 -> "API error: 404"
    [] status = 500 -> "API error: 500"
    [] OTHER -> "API error"

(***************************************************************************)
(* A completion of a function body: it returned a value or threw.          *)
(***************************************************************************)
Returned(v) == [thrown |-> FALSE, msg |-> "", val |-> v]
Thrown(m)   == [thrown |-> TRUE, msg |-> m, val |-> JsNull]

\* errData.error || errData.message || errText, inside try {} catch (e) {}
ErrTextOf(net) ==
  LET dflt == ApiErrorText(net.status)
  IN  IF net.body.t = "obj"
      THEN IF net.body.error # "" THEN net.body.error
           ELSE IF net.body.message # "" THEN net.body.message
           ELSE dflt
      ELSE dflt

\* the try block of apiGet and apiDelete
FetchJsonTry(net) ==
  IF net.st = "fail" THEN Thrown("Failed to fetch")
  ELSE IF ~Ok(net.status) THEN Thrown(ApiErrorText(net.status))
  ELSE IF net.body.t = "bad" THEN Thrown("Unexpected token")
  ELSE Returned(net.body)

\* the try block of apiPost and apiPut
SendJsonTry(net) ==
  IF net.st = "fail" THEN Thrown("Failed to fetch")
  ELSE IF ~Ok(net.status) THEN Thrown(ErrTextOf(net))
  ELSE IF net.body.t = "bad" THEN Thrown("Unexpected token")
  ELSE Returned(net.body)

\* apiGet without its catch
ApiGetNoCatch(net) == FetchJsonTry(net)

ApiGet(net) ==
  LET r == FetchJsonTry(net) IN IF r.thrown THEN Returned(JsNull) ELSE r

ApiPost(net) ==
  LET r == SendJsonTry(net)
  IN  IF r.thrown THEN Returned(JsObj(r.msg, "", NoRec)) ELSE r

ApiPut(net) ==
  LET r == SendJsonTry(net)
  IN  IF r.thrown THEN Returned(JsObj(r.msg, "", NoRec)) ELSE r

ApiDelete(net) ==
  LET r == FetchJsonTry(net) IN IF r.thrown THEN Returned(JsNull) ELSE r

(***************************************************************************)
(* Records.  Stadium {_id, id, name, slots, unavailableSlots}; Match       *)
(* {_id, id, title, stadiumId, players, maxPlayers, status}; User          *)
(* {_id, name, phone}.  A stadium reference is a bare identifier or a      *)
(* populated object carrying _id.  unavailableSlots is read only through   *)
(* includes(), so it is a set.                                             *)
(***************************************************************************)
Stadium(i, alt, n, sl, un) ==
  [_id |-> i, id |-> alt, name |-> n, slots |-> sl, unavailableSlots |-> un]
Ref(populated, i) == [populated |-> populated, _id |-> i]
Match(i, alt, ti, ref, pl, mx, st) ==
  [_id |-> i, id |-> alt, title |-> ti, stadiumId |-> ref, players |-> pl,
   maxPlayers |-> mx, status |-> st]
User(i, n, ph) == [_id |-> i, name |-> n, phone |-> ph]
NullUser == [null |-> TRUE]

\* what find() returns when no element matches
NotFound == [undefined |-> TRUE]

\* Array.prototype.find: the first element among those at the indices hits,
\* the indices whose element satisfies the callback
Find(s, hits) ==
  IF hits = {} THEN NotFound
  ELSE s[CHOOSE k \in hits : \A j \in hits : k <= j]

\* Array.prototype.includes on a list of names
Includes(s, x) == \E k \in 1..Len(s) : s[k] = x

\* the last handler step: the handler, how the step ended, and whether it
\* ended in an uncaught TypeError
Did(op, res, threw) == [op |-> op, res |-> res, fault |-> threw]
NoStep == Did("", "", FALSE)

(***************************************************************************)
(* Requests and tasks.                                                     *)
(***************************************************************************)
NoBody == [none |-> TRUE]
Req(method, path, i, body) ==
  [method |-> method, path |-> path, id |-> i, body |-> body]
NoReq == Req("", "", "", NoBody)
Task(h, pc, arg, req) ==
  [h |-> h, pc |-> pc, arg |-> arg, req |-> req, net |-> NetSent]
Pending == BagToSet(tasks)
Settled(t) == t.net.st \in {"fail", "http"}
CanStart == BagCardinality(tasks) < MaxTasks
Start(t) == tasks (+) SetToBag({t})
Finish(t) == tasks (-) SetToBag({t})
Replace(t, u) == (tasks (-) SetToBag({t})) (+) SetToBag({u})
Answer(t, net) == Replace(t, [t EXCEPT !.net = net])

(***************************************************************************)
(* The backend, from the interface table: GET lists a collection.  Any     *)
(* request can also fail in transport, and a list endpoint can answer with *)
(* a JSON object that is no array.  A step of the backend or of the user   *)
(* typing is no handler step: it resets last.                              *)
(***************************************************************************)
SrvCollection(path) ==
  CASE path = "/stadiums" -> srvStadiums
    [] path = "/matches" -> srvMatches
    [] path = "/users" -> srvUsers

SrvGetReplies(path) == {NetFail, Http(200, JsArr(SrvCollection(path)))}

SrvGet(t) ==
  /\ t.net = NetSent
  /\ t.req.method = "GET"
  /\ \E net \in SrvGetReplies(t.req.path) : tasks' = Answer(t, net)
  /\ last' = NoStep
  /\ UNCHANGED <<srvVars, cacheVars, userVars, navVars, modalVars, viewVars,
                 formVars, toast, apiCall>>

\* a list endpoint answers 200 with a JSON object that is no array
SrvGetObject(t) ==
  /\ t.net = NetSent
  /\ t.req.method = "GET"
  /\ tasks' = Answer(t, Http(200, JsObj("", "", NoRec)))
  /\ last' = NoStep
  /\ UNCHANGED <<srvVars, cacheVars, userVars, navVars, modalVars, viewVars,
                 formVars, toast, apiCall>>

(***************************************************************************)
(* Local Session Store (app.js:19-37).  The stored text is absent, does    *)
(* not parse, or is the JSON of a user snapshot.                           *)
(***************************************************************************)
StoreAbsent  == [kind |-> "absent", user |-> NullUser]
StoreCorrupt == [kind |-> "corrupt", user |-> NullUser]
Stored(u)    == [kind |-> "json", user |-> u]

getSavedUser(store) == IF store.kind = "json" THEN store.user ELSE NullUser

saveCurrentUser(u) == IF u # NullUser THEN Stored(u) ELSE StoreAbsent

(***************************************************************************)
(* Domain Cache (app.js:130-176).  A collection holds whatever truthy      *)
(* value the gateway returned, so it is a JSON value.                      *)
(***************************************************************************)
\* stadiumId: m.stadiumId?._id || m.stadiumId
FlatRef(ref) == Ref(FALSE, ref._id)

NormalizeMatch(m) ==
  [_id |-> m._id, id |-> m._id, title |-> m.title,
   stadiumId |-> FlatRef(m.stadiumId), _stadium |-> m.stadiumId,
   players |-> m.players, maxPlayers |-> m.maxPlayers, status |-> m.status]

NormalizeMatches(s) == [k \in 1..Len(s) |-> NormalizeMatch(s[k])]

\* loadStadiums storing the result without testing it
StadiumsAfterLoadUnchecked(data, old) == IF data.t = "null" THEN JsArr(<<>>) ELSE data

\* loadStadiums adding the records of the result to the ones it holds
StadiumsAfterLoadMerged(data, old) ==
  IF Truthy(data)
  THEN IF data.t = "arr" /\ old.t = "arr" THEN JsArr(old.v \o data.v) ELSE data
  ELSE old

\* loadStadiums after its await: the new value of stadiums
StadiumsAfterLoad(data, old) == IF Truthy(data) THEN data ELSE old

\* loadMatches after its await; data.map throws when data is no array
LoadMatchesThrows(data) == Truthy(data) /\ data.t # "arr"

\* loadMatches dropping its result while another handler is suspended
MatchesAfterLoadUnlessBusy(data, old) ==
  IF Truthy(data) /\ data.t = "arr" /\ BagCardinality(tasks) = 1
  THEN JsArr(NormalizeMatches(data.v))
  ELSE old

MatchesAfterLoad(data, old) ==
  IF Truthy(data) /\ data.t = "arr" THEN JsArr(NormalizeMatches(data.v))
  ELSE old

\* loadUsers after its await
UsersAfterLoad(data, old) ==
  IF Truthy(data) /\ data.t = "arr" THEN data ELSE old

SameId(u, i) == u._id = i

\* loadUsers leaving currentUser alone when the saved identifier is not found
CurrentUserKeptWhenMissing(data, store, old) ==
  IF Truthy(data) /\ data.t = "arr"
  THEN LET saved == getSavedUser(store)
       IN  IF saved # NullUser /\ saved._id # Undef
           THEN LET hit == Find(data.v, {k \in 1..Len(data.v) : SameId(data.v[k], saved._id)})
                IN  IF hit = NotFound THEN old ELSE hit
           ELSE NullUser
  ELSE old

CurrentUserAfterLoad(data, store, old) ==
  IF Truthy(data) /\ data.t = "arr"
  THEN LET saved == getSavedUser(store)
       IN  IF saved # NullUser /\ saved._id # Undef
           THEN LET hit == Find(data.v, {k \in 1..Len(data.v) : SameId(data.v[k], saved._id)})
                IN  IF hit = NotFound THEN NullUser ELSE hit
           ELSE NullUser
  ELSE old

HasId(r, i) == r._id = i \/ r.id = i
GetByIdIn(coll, i) == Find(coll.v, {k \in 1..Len(coll.v) : HasId(coll.v[k], i)})
getStadiumById(i) == GetByIdIn(stadiums, i)
getMatchById(i) == GetByIdIn(matches, i)

StartLoad(h, path) ==
    /\ CanStart
    /\ tasks' = Start(Task(h, "get", "", Req("GET", path, "", NoBody)))
    /\ last' = Did(h, "sent", FALSE)
    /\ UNCHANGED <<srvVars, cacheVars, userVars, navVars, modalVars, viewVars, formVars,
                   toast, apiCall>>

loadStadiums == StartLoad("loadStadiums", "/stadiums")
loadMatches == StartLoad("loadMatches", "/matches")
loadUsers == StartLoad("loadUsers", "/users")

loadStadiumsResume ==
  \E t \in Pending :
    /\ Settled(t) /\ t.h = "loadStadiums"
    /\ stadiums' = StadiumsAfterLoad(ApiGet(t.net).val, stadiums)
    /\ tasks' = Finish(t)
    /\ last' = Did("loadStadiumsResume", ApiGet(t.net).val.t, FALSE)
    /\ UNCHANGED <<srvVars, matches, users, userVars, navVars, modalVars,
                   viewVars, formVars, toast, apiCall>>

loadMatchesResume ==
  \E t \in Pending :
    /\ Settled(t) /\ t.h = "loadMatches"
    /\ matches' = MatchesAfterLoad(ApiGet(t.net).val, matches)
    /\ tasks' = Finish(t)
    /\ last' = Did("loadMatchesResume", ApiGet(t.net).val.t,
                    LoadMatchesThrows(ApiGet(t.net).val))
    /\ UNCHANGED <<srvVars, stadiums, users, userVars, navVars, modalVars,
                   viewVars, formVars, toast, apiCall>>

loadUsersResume ==
  \E t \in Pending :
    /\ Settled(t) /\ t.h = "loadUsers"
    /\ users' = UsersAfterLoad(ApiGet(t.net).val, users)
    /\ currentUser' =
         CurrentUserAfterLoad(ApiGet(t.net).val, savedUser, currentUser)
    /\ tasks' = Finish(t)
    /\ last' = Did("loadUsersResume", ApiGet(t.net).val.t, FALSE)
    /\ UNCHANGED <<srvVars, stadiums, matches, savedUser, navVars, modalVars,
                   viewVars, formVars, toast, apiCall>>

(***************************************************************************)
(* Construction (app.js:10-15, 180-187): empty collections, guest, page    *)
(* 'home', nothing rendered, no modal open, focus on the document body.    *)
(***************************************************************************)
El(where, idx) == [in |-> where, idx |-> idx]
Body == El("page", 0)
NoEl == El("null", 0)
NoToast == [icon |-> "", text |-> "", about |-> ""]
Toast(icon, text, about) == [icon |-> icon, text |-> text, about |-> about]
\* the two modals, in document order; n is the number of focusable elements
\* its content holds
Modals == {"create-match-modal", "add-stadium-modal"}
ModalOrder == <<"create-match-modal", "add-stadium-modal">>
ClosedModal(n) ==
  [visible |-> FALSE, ariaHidden |-> TRUE, n |-> n, prev |-> NoEl,
   overlayClick |-> FALSE, keyHandler |-> FALSE, mousedown |-> 0]
ModalsClosed(n) == [m \in Modals |-> ClosedModal(n)]
NoApiCall == [fn |-> "", pc |-> "idle", fetches |-> 0, net |-> NetNone,
              ret |-> Returned(JsNull)]

\* the login form: #login-username, -phone, -age, -position, -skill
LoginForm(n, ph, age, pos, sk) ==
  [name |-> n, phone |-> ph, age |-> age, position |-> pos, skillLevel |-> sk]
EmptyLogin == LoginForm(<<>>, <<>>, "", "", "")

\* the create-match form: #new-match-title, -stadium, -date, -time, -players
\* and the checked boxes of #new-match-friends, in document order
MatchForm(ti, st, d, tm, pl, fee, fr) ==
  [title |-> ti, stadiumId |-> st, date |-> d, time |-> tm, players |-> pl,
   fee |-> fee, friends |-> fr, options |-> {}]
EmptyMatchForm == MatchForm(<<>>, "", "", "", <<>>, <<>>, <<>>)

\* everything but the cache and the current user
FreshView ==
  /\ currentStadium = NotFound
  /\ currentMatch = NotFound
  /\ timeSlots = <<>>
  /\ matchCards = <<>>
  /\ joinBtn = "join"
  /\ toast = NoToast
  /\ currentPage = "home"
  /\ pageHistory = <<>>
  /\ activeElement = Body
  /\ keydown = <<>>
  /\ tasks = EmptyBag
  /\ last = NoStep
  /\ apiCall = NoApiCall
  /\ loginForm = EmptyLogin
  /\ matchForm = EmptyMatchForm

ClientInit ==
  /\ stadiums = JsArr(<<>>)
  /\ matches = JsArr(<<>>)
  /\ users = JsArr(<<>>)
  /\ currentUser = NullUser
  /\ FreshView

(***************************************************************************)
(* Backend contents the runs start from.                                   *)
(***************************************************************************)
StA == Stadium("s1", Undef, "Arena", <<"09:00", "11:00">>, {})
StB == Stadium("s1", Undef, "Arena", <<"09:00", "11:00">>, {"09:00"})
StAlt == Stadium(Undef, "s2", "Dome", <<"09:00">>, {})
MaOpen == Match("m1", Undef, "T1", Ref(TRUE, "s1"), <<"A">>, 2, "open")
MaFull == Match("m2", Undef, "T2", Ref(FALSE, "s1"), <<"A", "B">>, 2, "full")
MaAlt == Match(Undef, "m3", "T3", Ref(FALSE, "s2"), <<"B">>, 2, "open")
UsA == User("u1", "A", "p1")
UsA2 == User("u1", "A2", "p1")
UsB == User("u2", "B", "p2")
UsNoId == User(Undef, "C", "p3")

(***************************************************************************)
(* The gateway alone: one call of one helper, from its fetch to the value  *)
(* its caller receives.                                                    *)
(***************************************************************************)
Statuses == {200, 201, 400, 404, 500}
Bodies ==
  {JsBad, JsNull, JsArr(<<>>)} \cup
  {JsObj(e, m, NoRec) : e \in {"", "Match is full"}, m \in {"", "Not found"}}
Outcomes == {NetFail} \cup {Http(st, b) : st \in Statuses, b \in Bodies}

ApiOf(fn, net) ==
  CASE fn = "apiGet" -> ApiGet(net)
    [] fn = "apiPost" -> ApiPost(net)
    [] fn = "apiPut" -> ApiPut(net)
    [] fn = "apiDelete" -> ApiDelete(net)

ApiStart(fn) ==
  /\ apiCall.pc \in {"idle", "done"}
  /\ apiCall' = [fn |-> fn, pc |-> "fetch", fetches |-> 1, net |-> NetSent,
                 ret |-> Returned(JsNull)]
  /\ last' = Did(fn, "fetch", FALSE)
  /\ UNCHANGED <<srvVars, cacheVars, userVars, navVars, modalVars, viewVars,
                 formVars, toast, tasks>>

ApiSettle ==
  /\ apiCall.pc = "fetch"
  /\ \E net \in Outcomes :
       apiCall' = [apiCall EXCEPT !.pc = "done", !.net = net,
                                  !.ret = ApiOf(apiCall.fn, net)]
  /\ last' = Did(apiCall.fn, "settled", FALSE)
  /\ UNCHANGED <<srvVars, cacheVars, userVars, navVars, modalVars, viewVars,
                 formVars, toast, tasks>>

InitApi ==
  /\ ClientInit
  /\ srvStadiums = <<>> /\ srvMatches = <<>> /\ srvUsers = <<>>
  /\ savedUser = StoreAbsent
  /\ modal = ModalsClosed(1)

NextApi ==
  \/ \E fn \in {"apiGet", "apiPost", "apiPut", "apiDelete"} : ApiStart(fn)
  \/ ApiSettle

SpecApi == InitApi /\ [][NextApi]_vars

(***************************************************************************)
(* The Domain Cache alone: the three loads, in any order and overlapping,  *)
(* against a backend that holds lists of both record origins.              *)
(***************************************************************************)
StadiumLists == {<<>>, <<StA>>, <<StB, StAlt>>}
MatchLists == {<<MaOpen>>, <<MaFull, MaAlt>>}
UserLists == {<<UsA>>, <<UsA2, UsB>>}

InitCache ==
  /\ ClientInit
  /\ srvStadiums \in StadiumLists
  /\ srvMatches \in MatchLists
  /\ srvUsers \in UserLists
  /\ savedUser \in {StoreAbsent, Stored(UsA)}
  /\ modal = ModalsClosed(1)

NextCache ==
  \/ loadStadiums
  \/ loadMatches
  \/ loadUsers
  \/ \E t \in Pending : SrvGet(t)
  \/ \E t \in Pending : SrvGetObject(t)
  \/ loadStadiumsResume
  \/ loadMatchesResume
  \/ loadUsersResume

SpecCache == InitCache /\ [][NextCache]_vars

(***************************************************************************)
(* Navigation (app.js:191-242).                                            *)
(***************************************************************************)
\* the router's state: the current page and the stack of prior pages
Nav(page, history) == [page |-> page, history |-> history]
NavNow == Nav(currentPage, pageHistory)

\* navigateTo(page, pushHistory), pushing whatever the page is
NavigatedToAlwaysPushing(nav, page, pushHistory) ==
  Nav(page, IF pushHistory THEN Append(nav.history, nav.page)
            ELSE nav.history)

\* navigateTo(page, pushHistory)
NavigatedTo(nav, page, pushHistory) ==
  Nav(page, IF pushHistory /\ nav.page # page
            THEN Append(nav.history, nav.page) ELSE nav.history)

\* goBack()
WentBack(nav) ==
  IF Len(nav.history) > 0
  THEN NavigatedTo(Nav(nav.page, SubSeq(nav.history, 1, Len(nav.history) - 1)),
                   nav.history[Len(nav.history)], FALSE)
  ELSE NavigatedTo(nav, "home", FALSE)

\* showSection(section): pageHistory.push(currentPage); navigateTo(section)
SectionShown(nav, section) ==
  NavigatedTo(Nav(nav.page, Append(nav.history, nav.page)), section, TRUE)

\* pageHistory after navigateTo(page, pushHistory)
HistoryAfterNavigate(page, pushHistory) ==
  NavigatedTo(NavNow, page, pushHistory).history

NavBecomes(nav) ==
  /\ currentPage' = nav.page
  /\ pageHistory' = nav.history

\* a click on a navigation item: navigateTo(item.dataset.page)
navigateTo(page) ==
  /\ Len(NavigatedTo(NavNow, page, TRUE).history) <= MaxHistory
  /\ NavBecomes(NavigatedTo(NavNow, page, TRUE))
  /\ last' = Did("navigateTo", page, FALSE)
  /\ UNCHANGED <<srvVars, cacheVars, userVars, modalVars, viewVars, formVars,
                 toast, tasks, apiCall>>

goBack ==
  /\ NavBecomes(WentBack(NavNow))
  /\ last' = Did("goBack", IF pageHistory = <<>> THEN "home" ELSE "popped",
                 FALSE)
  /\ UNCHANGED <<srvVars, cacheVars, userVars, modalVars, viewVars, formVars,
                 toast, tasks, apiCall>>

showSection(section) ==
  /\ Len(SectionShown(NavNow, section).history) <= MaxHistory
  /\ NavBecomes(SectionShown(NavNow, section))
  /\ last' = Did("showSection", section, FALSE)
  /\ UNCHANGED <<srvVars, cacheVars, userVars, modalVars, viewVars, formVars,
                 toast, tasks, apiCall>>

(***************************************************************************)
(* The router alone: the pages are navigated to, shown as sections and     *)
(* left again, in any order.                                               *)
(***************************************************************************)
Pages == {"home", "matches", "map", "login"}

InitNav ==
  /\ ClientInit
  /\ srvStadiums = <<>> /\ srvMatches = <<>> /\ srvUsers = <<>>
  /\ savedUser = StoreAbsent
  /\ modal = ModalsClosed(1)

NextNav ==
  \/ \E page \in Pages : navigateTo(page)
  \/ goBack
  \/ \E section \in Pages : showSection(section)

SpecNav == InitNav /\ [][NextNav]_vars

(***************************************************************************)
(* The backend: POST /users creates a user.  It refuses a phone that a     *)
(* stored user already has, and gives the new record an identifier of its  *)
(* own.                                                                    *)
(***************************************************************************)
NewUserId(phone) ==
  CASE phone = "p1" -> "n1" [] phone = "p2" -> "n2" [] OTHER -> "n3"

SrvPostUser(t) ==
  /\ t.net = NetSent
  /\ t.req.method = "POST" /\ t.req.path = "/users"
  /\ LET body == t.req.body
         known == \E k \in 1..Len(srvUsers) : srvUsers[k].phone = body.phone
         made == User(NewUserId(body.phone), body.name, body.phone)
     IN  \/ /\ tasks' = Answer(t, NetFail)
            /\ UNCHANGED srvUsers
         \/ /\ known
            /\ tasks' = Answer(t, Http(400, JsObj("Phone already registered",
                                                  "", NoRec)))
            /\ UNCHANGED srvUsers
         \/ /\ ~known
            /\ tasks' = Answer(t, Http(201, JsObj("", "", made)))
            /\ srvUsers' = Append(srvUsers, made)
  /\ last' = NoStep
  /\ UNCHANGED <<srvStadiums, srvMatches, cacheVars, userVars, navVars,
                 modalVars, viewVars, formVars, toast, apiCall>>

(***************************************************************************)
(* submitLogin (app.js:862-911).                                           *)
(***************************************************************************)
\* if (!name || !phone || !age || !position || !skillLevel)
LoginIncomplete(f) ==
  \/ Str(Trim(f.name)) = "" \/ Str(Trim(f.phone)) = ""
  \/ f.age = "" \/ f.position = "" \/ f.skillLevel = ""

\* register even when the phone is known
ExistingUserIgnored(phone) == NotFound

\* users.find(u => u.phone === phone)
ExistingUser(phone) ==
  Find(users.v, {k \in 1..Len(users.v) : users.v[k].phone = phone})

\* if (res), whatever res.error says
SucceededUnlessNull(res) == Truthy(res)

\* res && !res.error
Succeeded(res) == Truthy(res) /\ (res.t = "obj" => res.error = "")

\* what the user may have typed into the login form: a field left empty,
\* the phone of a known user, or a phone nobody has
LoginForms ==
  { LoginForm(<<"C">>, <<"p3">>, "", "GK", "pro"),
    LoginForm(<<"A">>, <<" ", "p1">>, "20", "GK", "pro"),
    LoginForm(<<"C", " ">>, <<"p3">>, "20", "GK", "pro") }

\* submitLogin reading the form f
submitLogin(f) ==
  LET name == Str(Trim(f.name))
      phone == Str(Trim(f.phone))
      existingUser == ExistingUser(phone)
  IN  /\ loginForm' = f
      /\ UNCHANGED matchForm
      /\ IF LoginIncomplete(f)
         THEN /\ toast' = Toast("warn", "Please fill in all fields!", "")
              /\ last' = Did("submitLogin", "incomplete", FALSE)
              /\ UNCHANGED <<srvVars, cacheVars, userVars, navVars, modalVars,
                             viewVars, tasks, apiCall>>
         ELSE IF existingUser # NotFound
         THEN /\ currentUser' = existingUser
              /\ savedUser' = saveCurrentUser(existingUser)
              /\ toast' = Toast("ok", "Welcome back", existingUser.name)
              /\ currentPage' = "home"
              /\ pageHistory' = HistoryAfterNavigate("home", TRUE)
              /\ last' = Did("submitLogin", "existing", FALSE)
              /\ UNCHANGED <<srvVars, cacheVars, modalVars, viewVars, tasks,
                             apiCall>>
         ELSE /\ CanStart
              /\ tasks' = Start(
                   Task("submitLogin", "post", "",
                        Req("POST", "/users", "",
                            [name |-> name, phone |-> phone])))
              /\ last' = Did("submitLogin", "sent", FALSE)
              /\ UNCHANGED <<srvVars, cacheVars, userVars, navVars, modalVars,
                             viewVars, toast, apiCall>>

\* after await apiPost('/users', payload)
submitLoginPosted ==
  \E t \in Pending :
    /\ Settled(t) /\ t.h = "submitLogin" /\ t.pc = "post"
    /\ LET res == ApiPost(t.net).val
       IN  IF Succeeded(res)
           THEN /\ currentUser' = res.rec
                /\ savedUser' = saveCurrentUser(res.rec)
                /\ toast' = Toast("party", "Account created successfully!", "")
                /\ tasks' = Replace(t,
                     Task("submitLogin", "reload", "",
                          Req("GET", "/users", "", NoBody)))
                /\ last' = Did("submitLoginPosted", "created", FALSE)
           ELSE /\ toast' = Toast("fail", "Registration failed",
                                  IF res.t = "obj" THEN res.error ELSE "")
                /\ tasks' = Finish(t)
                /\ last' = Did("submitLoginPosted", "failed", res.t = "null")
                /\ UNCHANGED userVars
    /\ UNCHANGED <<srvVars, cacheVars, navVars, modalVars, viewVars, formVars,
                   apiCall>>

\* after await loadUsers(): the body of loadUsers, then navigateTo('home')
submitLoginReloaded ==
  \E t \in Pending :
    /\ Settled(t) /\ t.h = "submitLogin" /\ t.pc = "reload"
    /\ users' = UsersAfterLoad(ApiGet(t.net).val, users)
    /\ currentUser' =
         CurrentUserAfterLoad(ApiGet(t.net).val, savedUser, currentUser)
    /\ currentPage' = "home"
    /\ pageHistory' = HistoryAfterNavigate("home", TRUE)
    /\ tasks' = Finish(t)
    /\ last' = Did("submitLoginReloaded", ApiGet(t.net).val.t, FALSE)
    /\ UNCHANGED <<srvVars, stadiums, matches, savedUser, modalVars, viewVars,
                   formVars, toast, apiCall>>

(***************************************************************************)
(* Users: login, registration and the reloads of users, against a backend  *)
(* whose users other clients may change.                                   *)
(***************************************************************************)
BackendEditUsers ==
  /\ srvUsers' \in UserLists
  /\ last' = NoStep
  /\ UNCHANGED <<srvStadiums, srvMatches, cacheVars, userVars, navVars,
                 modalVars, viewVars, formVars, toast, tasks, apiCall>>

InitUsers ==
  /\ ClientInit
  /\ srvStadiums = <<>> /\ srvMatches = <<>>
  /\ srvUsers \in UserLists
  /\ savedUser \in {StoreAbsent, StoreCorrupt, Stored(UsA), Stored(UsNoId)}
  /\ modal = ModalsClosed(1)

NextUsers ==
  \/ \E f \in LoginForms : submitLogin(f)
  \/ submitLoginPosted
  \/ submitLoginReloaded
  \/ loadUsers
  \/ loadUsersResume
  \/ \E t \in Pending : SrvGet(t)
  \/ \E t \in Pending : SrvPostUser(t)
  \/ BackendEditUsers

SpecUsers == InitUsers /\ [][NextUsers]_vars

(***************************************************************************)
(* The backend: POST /stadiums/{id}/book books a time slot {time} and      *)
(* answers with the updated stadium.  It refuses a stadium it does not     *)
(* hold, a label that is no slot of the stadium, and a slot that is        *)
(* already unavailable.                                                    *)
(***************************************************************************)
SlotSet(st) == {st.slots[k] : k \in 1..Len(st.slots)}

SrvPostBook(t) ==
  /\ t.net = NetSent
  /\ t.req.method = "POST" /\ t.req.path = "/stadiums/book"
  /\ LET hits == {k \in 1..Len(srvStadiums) :
                    t.req.id # Undef /\ srvStadiums[k]._id = t.req.id}
         time == t.req.body.time
     IN  \/ /\ tasks' = Answer(t, NetFail)
            /\ UNCHANGED srvStadiums
         \/ /\ hits = {}
            /\ tasks' = Answer(t, Http(404, JsObj("Stadium not found", "",
                                                  NoRec)))
            /\ UNCHANGED srvStadiums
         \/ /\ hits # {}
            /\ LET k == CHOOSE k \in hits : TRUE
                   st == srvStadiums[k]
                   booked == [st EXCEPT !.unavailableSlots = @ \cup {time}]
               IN  IF time \notin SlotSet(st) \/ time \in st.unavailableSlots
                   THEN /\ tasks' = Answer(t, Http(400,
                               JsObj("Slot not available", "", NoRec)))
                        /\ UNCHANGED srvStadiums
                   ELSE /\ tasks' = Answer(t, Http(200, JsObj("", "", booked)))
                        /\ srvStadiums' = [srvStadiums EXCEPT ![k] = booked]
  /\ last' = NoStep
  /\ UNCHANGED <<srvMatches, srvUsers, cacheVars, userVars, navVars,
                 modalVars, viewVars, formVars, toast, apiCall>>

(***************************************************************************)
(* Stadium detail and booking (app.js:491-548).  timeSlots is the content  *)
(* of #stadium-time-slots: per slot its label, whether it carries the      *)
(* class unavailable (and then no click handler), and the class selected.  *)
(***************************************************************************)
Slot(label, unavailable, selected) ==
  [label |-> label, unavailable |-> unavailable, selected |-> selected]

\* the slots rendered without the test for unavailableSlots
RenderSlotsAllSelectable(st) ==
  [k \in 1..Len(st.slots) |-> Slot(st.slots[k], FALSE, FALSE)]

\* currentStadium.slots.map(slot => ...)
RenderSlots(st) ==
  [k \in 1..Len(st.slots) |->
     Slot(st.slots[k], st.slots[k] \in st.unavailableSlots, FALSE)]

\* the body of openStadiumDetail(i) once getStadiumById has returned
StadiumDetailShown(i) ==
  LET st == getStadiumById(i)
  IN  /\ currentStadium' = st
      /\ IF st = NotFound
         THEN UNCHANGED <<timeSlots, navVars>>
         ELSE /\ timeSlots' = RenderSlots(st)
              /\ currentPage' = "stadium-detail"
              /\ pageHistory' = HistoryAfterNavigate("stadium-detail", TRUE)

openStadiumDetail(i) ==
  /\ IF stadiums.t = "arr"
     THEN /\ StadiumDetailShown(i)
          /\ last' = Did("openStadiumDetail",
                         IF getStadiumById(i) = NotFound THEN "missing"
                         ELSE "shown", FALSE)
     ELSE /\ last' = Did("openStadiumDetail", "TypeError", TRUE)
          /\ UNCHANGED <<stadiumView, navVars>>
  /\ UNCHANGED <<srvVars, cacheVars, userVars, modalVars, matchView,
                 formVars, toast, tasks, apiCall>>

\* a click on the k-th rendered slot; an unavailable slot has no handler
selectTimeSlot(k) ==
  /\ k \in 1..Len(timeSlots)
  /\ ~timeSlots[k].unavailable
  /\ timeSlots' = [j \in 1..Len(timeSlots) |->
                     [timeSlots[j] EXCEPT !.selected = (j = k)]]
  /\ last' = Did("selectTimeSlot", timeSlots[k].label, FALSE)
  /\ UNCHANGED <<srvVars, cacheVars, userVars, navVars, modalVars,
                 currentStadium, matchView, formVars, toast, tasks,
                 apiCall>>

\* document.querySelector('#stadium-time-slots .time-slot.selected')
SelectedSlot ==
  Find(timeSlots, {k \in 1..Len(timeSlots) : timeSlots[k].selected})

\* result.error || dflt
ErrorOr(result, dflt) ==
  IF result.t = "obj" /\ result.error # "" THEN result.error ELSE dflt

bookStadium ==
  IF SelectedSlot = NotFound
  THEN /\ toast' = Toast("warn", "Please select a time slot first!", "")
       /\ last' = Did("bookStadium", "unselected", FALSE)
       /\ UNCHANGED <<srvVars, cacheVars, userVars, navVars, modalVars,
                      viewVars, formVars, tasks, apiCall>>
  ELSE IF currentStadium = NotFound
  THEN /\ last' = Did("bookStadium", "TypeError", TRUE)
       /\ UNCHANGED <<srvVars, cacheVars, userVars, navVars, modalVars,
                      viewVars, formVars, toast, tasks, apiCall>>
  ELSE /\ CanStart
       /\ tasks' = Start(
            Task("bookStadium", "post", SelectedSlot.label,
                 Req("POST", "/stadiums/book",
                     TemplateText(currentStadium._id),
                     [time |-> SelectedSlot.label])))
       /\ last' = Did("bookStadium", "sent", FALSE)
       /\ UNCHANGED <<srvVars, cacheVars, userVars, navVars, modalVars,
                      viewVars, formVars, toast, apiCall>>

\* after await apiPost(`/stadiums/${currentStadium._id}/book`, { time })
bookStadiumResume ==
  \E t \in Pending :
    /\ Settled(t) /\ t.h = "bookStadium"
    /\ tasks' = Finish(t)
    /\ LET result == ApiPost(t.net).val
       IN  IF Succeeded(result)
           THEN IF currentStadium = NotFound
                THEN /\ last' = Did("bookStadiumResume", "TypeError", TRUE)
                     /\ UNCHANGED <<stadiumView, navVars, toast>>
                ELSE /\ toast' = Toast("ok", "Booked", currentStadium.name)
                     /\ IF result.t # "obj" \/ result.rec = NoRec
                        THEN /\ currentStadium' = NotFound
                             /\ last' = Did("bookStadiumResume", "TypeError",
                                            TRUE)
                             /\ UNCHANGED <<timeSlots, navVars>>
                        ELSE IF stadiums.t # "arr"
                        THEN /\ currentStadium' = result.rec
                             /\ last' = Did("bookStadiumResume", "TypeError",
                                            TRUE)
                             /\ UNCHANGED <<timeSlots, navVars>>
                        ELSE /\ StadiumDetailShown(result.rec._id)
                             /\ last' = Did("bookStadiumResume", "booked",
                                            FALSE)
           ELSE /\ toast' = Toast("fail", ErrorOr(result, "Booking failed"), "")
                /\ last' = Did("bookStadiumResume", "refused", FALSE)
                /\ UNCHANGED <<stadiumView, navVars>>
    /\ UNCHANGED <<srvVars, cacheVars, userVars, modalVars, matchView,
                   formVars, apiCall>>

(***************************************************************************)
(* Stadiums: the list is loaded, a stadium is opened, slots are clicked    *)
(* and booked.                                                             *)
(***************************************************************************)
StadiumIds == {"s1", "s2", "s9"}

InitStadium ==
  /\ ClientInit
  /\ srvStadiums \in StadiumLists
  /\ srvMatches = <<>> /\ srvUsers = <<>>
  /\ savedUser = StoreAbsent
  /\ modal = ModalsClosed(1)

NextStadium ==
  \/ loadStadiums
  \/ loadStadiumsResume
  \/ \E t \in Pending : SrvGet(t)
  \/ \E i \in StadiumIds : openStadiumDetail(i)
  \/ \E k \in 1..Len(timeSlots) : selectTimeSlot(k)
  \/ bookStadium
  \/ bookStadiumResume
  \/ \E t \in Pending : SrvPostBook(t)

SpecStadium == InitStadium /\ [][NextStadium]_vars

(***************************************************************************)
(* The backend: POST /matches/{id}/join adds {playerName} to the players   *)
(* of a match and answers with the updated match.  It refuses a match it   *)
(* does not hold, a name that is already among the players, and a match    *)
(* whose players have reached maxPlayers; status follows the player count. *)
(***************************************************************************)
StatusOf(players, maxPlayers) ==
  IF Len(players) < maxPlayers THEN "open" ELSE "full"

JoinReply(i, name) ==
  LET hits == {k \in 1..Len(srvMatches) :
                 i # Undef /\ srvMatches[k]._id = i}
  IN  IF hits = {}
      THEN Http(404, JsObj("Match not found", "", NoRec))
      ELSE LET m == srvMatches[CHOOSE k \in hits : TRUE]
           IN  IF Includes(m.players, name)
               THEN Http(400, JsObj("Already joined", "", NoRec))
               ELSE IF Len(m.players) >= m.maxPlayers
               THEN Http(400, JsObj("Match is full", "", NoRec))
               ELSE Http(200, JsObj("", "",
                      [m EXCEPT !.players = Append(@, name),
                                !.status = StatusOf(Append(m.players, name),
                                                    m.maxPlayers)]))

MatchesAfterReply(net) ==
  IF net.st = "http" /\ Ok(net.status)
  THEN [k \in 1..Len(srvMatches) |->
          IF srvMatches[k]._id = net.body.rec._id THEN net.body.rec
          ELSE srvMatches[k]]
  ELSE srvMatches

SrvPostJoin(t) ==
  /\ t.net = NetSent
  /\ t.req.method = "POST" /\ t.req.path = "/matches/join"
  /\ \E net \in {NetFail, JoinReply(t.req.id, t.req.body.playerName)} :
       /\ tasks' = Answer(t, net)
       /\ srvMatches' = MatchesAfterReply(net)
  /\ last' = NoStep
  /\ UNCHANGED <<srvStadiums, srvUsers, cacheVars, userVars, navVars,
                 modalVars, viewVars, formVars, toast, apiCall>>

\* a player on another device joins a match
SrvOtherJoin(i, name) ==
  /\ srvMatches' = MatchesAfterReply(JoinReply(i, name))
  /\ srvMatches' # srvMatches
  /\ last' = NoStep
  /\ UNCHANGED <<srvStadiums, srvUsers, cacheVars, userVars, navVars,
                 modalVars, viewVars, formVars, toast, tasks, apiCall>>

(***************************************************************************)
(* Match cards, match detail and joining (app.js:367-439, 652-765).        *)
(* matchCards is the content of #matches-list under the tab 'all': per     *)
(* card the identifier its handlers carry and whether it has a Join        *)
(* button.  joinBtn is the state openMatchDetail gives #join-match-btn:    *)
(* "join" takes clicks, "joined" and "full" do not.                        *)
(***************************************************************************)
\* m._id || m.id
MatchIdOf(m) == IF m._id # Undef THEN m._id ELSE m.id

Card(m) == [id |-> TemplateText(MatchIdOf(m)), join |-> m.status = "open"]

\* filtered.map(m => renderMatchCard(m)), currentMatchTab = 'all'
RenderCards(coll) == [k \in 1..Len(coll.v) |-> Card(coll.v[k])]

\* openMatchDetail(i) ends in a TypeError: stadiums.find is no function, or
\* currentUser.name is read of a guest
MatchDetailThrows(coll, i) ==
  /\ GetByIdIn(coll, i) # NotFound
  /\ stadiums.t # "arr" \/ currentUser = NullUser

JoinBtnFor(m) ==
  IF Includes(m.players, currentUser.name) THEN "joined"
  ELSE IF m.status = "full" THEN "full"
  ELSE "join"

\* the body of openMatchDetail(i) over the cached matches coll
MatchDetailShown(coll, i) ==
  LET m == GetByIdIn(coll, i)
  IN  /\ currentMatch' = m
      /\ IF m = NotFound \/ MatchDetailThrows(coll, i)
         THEN UNCHANGED <<joinBtn, navVars>>
         ELSE /\ joinBtn' = JoinBtnFor(m)
              /\ currentPage' = "match-detail"
              /\ pageHistory' = HistoryAfterNavigate("match-detail", TRUE)

\* a click on the tab 'all': setMatchTab('all') renders the list
setMatchTab ==
  /\ stadiums.t = "arr"
  /\ matchCards' = RenderCards(matches)
  /\ last' = Did("setMatchTab", "all", FALSE)
  /\ UNCHANGED <<srvVars, cacheVars, userVars, navVars, modalVars,
                 stadiumView, currentMatch, joinBtn, formVars, toast, tasks,
                 apiCall>>

openMatchDetail(i) ==
  /\ MatchDetailShown(matches, i)
  /\ last' = Did("openMatchDetail",
                 IF GetByIdIn(matches, i) = NotFound THEN "missing"
                 ELSE IF MatchDetailThrows(matches, i) THEN "TypeError"
                 ELSE "shown",
                 MatchDetailThrows(matches, i))
  /\ UNCHANGED <<srvVars, cacheVars, userVars, modalVars, stadiumView,
                 matchCards, formVars, toast, tasks, apiCall>>

\* the call both join handlers make, up to the await
JoinSent(h, i) ==
  IF currentUser = NullUser
  THEN /\ last' = Did(h, "TypeError", TRUE)
       /\ UNCHANGED tasks
  ELSE /\ CanStart
       /\ tasks' = Start(Task(h, "post", i,
                              Req("POST", "/matches/join", TemplateText(i),
                                  [playerName |-> currentUser.name])))
       /\ last' = Did(h, "sent", FALSE)

\* a click on #join-match-btn while it takes clicks
joinMatch ==
  /\ currentPage = "match-detail" /\ joinBtn = "join"
  /\ IF currentMatch = NotFound
     THEN /\ last' = Did("joinMatch", "nomatch", FALSE)
          /\ UNCHANGED tasks
     ELSE JoinSent("joinMatch", MatchIdOf(currentMatch))
  /\ UNCHANGED <<srvVars, cacheVars, userVars, navVars, modalVars, viewVars,
                 formVars, toast, apiCall>>

\* a click on the Join button of the k-th card
joinMatchById(k) ==
  /\ k \in 1..Len(matchCards) /\ matchCards[k].join
  /\ JoinSent("joinMatchById", matchCards[k].id)
  /\ UNCHANGED <<srvVars, cacheVars, userVars, navVars, modalVars, viewVars,
                 formVars, toast, apiCall>>

\* result.title
TitleOf(result) ==
  IF result.t = "obj" /\ result.rec # NoRec THEN result.rec.title ELSE Undef

\* after await apiPost(`/matches/${matchId}/join`, ...) in joinMatch and in
\* joinMatchById: if (result) { showToast(...); await loadMatches(); ...
joinPosted ==
  \E t \in Pending :
    /\ Settled(t) /\ t.h \in {"joinMatch", "joinMatchById"} /\ t.pc = "post"
    /\ LET result == ApiPost(t.net).val
       IN  IF Truthy(result)
           THEN IF t.h = "joinMatch" /\ currentMatch = NotFound
                THEN /\ tasks' = Finish(t)
                     /\ last' = Did("joinPosted", "TypeError", TRUE)
                     /\ UNCHANGED toast
                ELSE /\ toast' = Toast("party", "You joined",
                                       IF t.h = "joinMatch"
                                       THEN currentMatch.title
                                       ELSE TitleOf(result))
                     /\ tasks' = Replace(t,
                          Task(t.h, "reload", t.arg,
                               Req("GET", "/matches", "", NoBody)))
                     /\ last' = Did("joinPosted", "joined", FALSE)
           ELSE /\ toast' = Toast("warn", "Could not join match", "")
                /\ tasks' = Finish(t)
                /\ last' = Did("joinPosted", "failed", FALSE)
    /\ UNCHANGED <<srvVars, cacheVars, userVars, navVars, modalVars, viewVars,
                   formVars, apiCall>>

\* after await loadMatches() in joinMatch: openMatchDetail(matchId)
joinMatchReloaded ==
  \E t \in Pending :
    /\ Settled(t) /\ t.h = "joinMatch" /\ t.pc = "reload"
    /\ tasks' = Finish(t)
    /\ matches' = MatchesAfterLoad(ApiGet(t.net).val, matches)
    /\ IF LoadMatchesThrows(ApiGet(t.net).val)
       THEN /\ last' = Did("joinMatchReloaded", "TypeError", TRUE)
            /\ UNCHANGED <<currentMatch, joinBtn, navVars>>
       ELSE /\ MatchDetailShown(matches', t.arg)
            /\ last' = Did("joinMatchReloaded", "shown",
                           MatchDetailThrows(matches', t.arg))
    /\ UNCHANGED <<srvVars, stadiums, users, userVars, modalVars,
                   stadiumView, matchCards, formVars, toast, apiCall>>

\* after await loadMatches() in joinMatchById: renderMatchesList()
joinMatchByIdReloaded ==
  \E t \in Pending :
    /\ Settled(t) /\ t.h = "joinMatchById" /\ t.pc = "reload"
    /\ tasks' = Finish(t)
    /\ matches' = MatchesAfterLoad(ApiGet(t.net).val, matches)
    /\ IF LoadMatchesThrows(ApiGet(t.net).val) \/ stadiums.t # "arr"
       THEN /\ last' = Did("joinMatchByIdReloaded", "TypeError", TRUE)
            /\ UNCHANGED matchCards
       ELSE /\ matchCards' = RenderCards(matches')
            /\ last' = Did("joinMatchByIdReloaded", "rendered", FALSE)
    /\ UNCHANGED <<srvVars, stadiums, users, userVars, navVars, modalVars,
                   stadiumView, currentMatch, joinBtn, formVars, toast,
                   apiCall>>

(***************************************************************************)
(* Joining: matches are loaded and shown, the user joins from a card or    *)
(* from the detail page, and other players join meanwhile.                 *)
(***************************************************************************)
MatchIds == {"m1", "m2"}

OtherPlayers == {"Z"}

InitJoin ==
  /\ ClientInit
  /\ srvStadiums = <<>>
  /\ srvMatches \in MatchLists
  /\ srvUsers = <<UsA2, UsB>>
  /\ savedUser \in {StoreAbsent, Stored(UsB)}
  /\ modal = ModalsClosed(1)

NextJoin ==
  \/ loadMatches
  \/ loadMatchesResume
  \/ loadUsers
  \/ loadUsersResume
  \/ \E t \in Pending : SrvGet(t)
  \/ setMatchTab
  \/ \E k \in 1..Len(matchCards) : openMatchDetail(matchCards[k].id)
  \/ joinMatch
  \/ \E k \in 1..Len(matchCards) : joinMatchById(k)
  \/ joinPosted
  \/ joinMatchReloaded
  \/ joinMatchByIdReloaded
  \/ \E t \in Pending : SrvPostJoin(t)
  \/ \E i \in MatchIds, name \in OtherPlayers : SrvOtherJoin(i, name)

SpecJoin == InitJoin /\ [][NextJoin]_vars


(***************************************************************************)
(* Modal accessibility helpers (app.js:992-1053).  The focusable elements  *)
(* of modal m are El(m, 1) .. El(m, n); El(m, 0) is its .modal-content;    *)
(* the page behind has the elements El("page", 1) .. El("page",            *)
(* NumPageEls).  The elements of a modal that is not visible are not       *)
(* rendered.  keydown lists the listeners the modals have on document, in  *)
(* the order they were added, each by the modal whose handler it is.       *)
(***************************************************************************)
NumPageEls == 2
MaxFocusable == 2
MaxListeners == 2

Ui(md, kd, focus) == [modal |-> md, keydown |-> kd, focus |-> focus]

\* the element is in the document and rendered
Rendered(md, e) ==
  \/ e.in = "page"
  \/ e.in \in Modals /\ md[e.in].visible /\ e.idx <= md[e.in].n

_getFocusable(md, m) ==
  IF md[m].visible THEN [k \in 1..md[m].n |-> El(m, k)] ELSE <<>>

_addModalHandlers(ui, m) ==
  LET focusable == _getFocusable(ui.modal, m)
  IN  Ui([ui.modal EXCEPT ![m] =
            [@ EXCEPT !.prev = ui.focus, !.overlayClick = TRUE,
                      !.mousedown = @ + 1, !.keyHandler = TRUE,
                      !.ariaHidden = FALSE]],
         Append(ui.keydown, m),
         IF Len(focusable) > 0 THEN focusable[1] ELSE El(m, 0))

\* s without its last occurrence of m
RemoveLast(s, m) ==
  LET hits == {k \in 1..Len(s) : s[k] = m}
  IN  IF hits = {} THEN s
      ELSE LET at == CHOOSE k \in hits : \A j \in hits : j <= k
           IN  [k \in 1..(Len(s) - 1) |-> IF k < at THEN s[k] ELSE s[k + 1]]

\* focus once the elements of closed modals are gone: an element that is no
\* longer rendered loses focus to the body
FocusFixup(md, e) == IF e = Body \/ Rendered(md, e) THEN e ELSE Body

_removeModalHandlers(ui, m) ==
  LET old == ui.modal[m]
      md == [ui.modal EXCEPT ![m] =
               [@ EXCEPT !.mousedown = IF old.overlayClick THEN @ - 1 ELSE @,
                         !.ariaHidden = TRUE, !.overlayClick = FALSE,
                         !.keyHandler = FALSE, !.prev = NoEl]]
      target == IF old.prev # NoEl /\ old.prev # Body /\ Rendered(md, old.prev)
                THEN old.prev ELSE ui.focus
  IN  Ui(md,
         IF old.keyHandler THEN RemoveLast(ui.keydown, m) ELSE ui.keydown,
         FocusFixup(md, target))

\* modal.classList.add('visible'); _addModalHandlers(modal, onClose)
Opened(ui, m) ==
  _addModalHandlers(
    Ui([ui.modal EXCEPT ![m].visible = TRUE], ui.keydown, ui.focus), m)

\* modal.classList.remove('visible'); _removeModalHandlers(modal)
Closed(ui, m) ==
  _removeModalHandlers(
    Ui([ui.modal EXCEPT ![m].visible = FALSE], ui.keydown, ui.focus), m)

UiNow == Ui(modal, keydown, activeElement)
UiBecomes(ui) ==
  /\ modal' = ui.modal
  /\ keydown' = ui.keydown
  /\ activeElement' = ui.focus

\* openAddStadiumModal, and openCreateMatchModal, which goes on to fill the
\* stadium options from stadiums.map, the date, the time and the unchecked
\* friends
openModal(m) ==
  /\ Len(keydown) < MaxListeners
  /\ UiBecomes(Opened(UiNow, m))
  /\ last' = Did("openModal", m,
                 m = "create-match-modal" /\ stadiums.t # "arr")
  /\ matchForm' = IF m = "create-match-modal" /\ stadiums.t = "arr"
                  THEN [matchForm EXCEPT
                          !.stadiumId = "", !.date = "d1", !.time = "18:00",
                          !.friends = <<>>,
                          !.options = {TemplateText(stadiums.v[k]._id) :
                                         k \in 1..Len(stadiums.v)}]
                  ELSE matchForm
  /\ UNCHANGED <<srvVars, cacheVars, userVars, navVars, viewVars, loginForm,
                 toast, tasks, apiCall>>

\* closeCreateMatchModal and closeAddStadiumModal
closeModal(m) ==
  /\ UiBecomes(Closed(UiNow, m))
  /\ last' = Did("closeModal", m, FALSE)
  /\ UNCHANGED <<srvVars, cacheVars, userVars, navVars, viewVars, formVars,
                 toast, tasks, apiCall>>

\* a mousedown on the overlay of a visible modal: every listener the modal
\* has calls onClose
overlayMousedown(m) ==
  /\ modal[m].visible /\ modal[m].mousedown > 0
  /\ UiBecomes(Closed(UiNow, m))
  /\ last' = Did("overlayMousedown", m, FALSE)
  /\ UNCHANGED <<srvVars, cacheVars, userVars, navVars, viewVars, formVars,
                 toast, tasks, apiCall>>

\* the modals with a keydown listener, in the order of their first listener
RECURSIVE FirstOccurrences(_)
FirstOccurrences(s) ==
  IF s = <<>> THEN <<>>
  ELSE LET init == FirstOccurrences(SubSeq(s, 1, Len(s) - 1))
       IN  IF \E k \in 1..Len(init) : init[k] = s[Len(s)] THEN init
           ELSE Append(init, s[Len(s)])

RECURSIVE ClosedAll(_, _)
ClosedAll(ui, ms) ==
  IF ms = <<>> THEN ui ELSE ClosedAll(Closed(ui, Head(ms)), Tail(ms))

\* Escape: every key handler calls preventDefault and onClose; a handler
\* removed by an earlier one does not run, and a second close of a modal
\* changes nothing
pressEscape ==
  /\ keydown # <<>>
  /\ UiBecomes(ClosedAll(UiNow, FirstOccurrences(keydown)))
  /\ last' = Did("pressEscape", "", FALSE)
  /\ UNCHANGED <<srvVars, cacheVars, userVars, navVars, viewVars, formVars,
                 toast, tasks, apiCall>>

\* one key handler on Tab: the focus it leaves and whether it has called
\* preventDefault
Trap(focus, prevented) == [focus |-> focus, prevented |-> prevented]

TabHandler(m, shift, tr) ==
  LET focusable == _getFocusable(modal, m)
      first == focusable[1]
      lastEl == focusable[Len(focusable)]
  IN  IF Len(focusable) = 0 THEN tr
      ELSE IF shift
      THEN IF tr.focus = first THEN Trap(lastEl, TRUE) ELSE tr
      ELSE IF tr.focus = lastEl THEN Trap(first, TRUE) ELSE tr

RECURSIVE TabHandlers(_, _, _)
TabHandlers(hs, shift, tr) ==
  IF hs = <<>> THEN tr
  ELSE TabHandlers(Tail(hs), shift, TabHandler(Head(hs), shift, tr))

\* the tabbable elements in document order: the page, then the modals
RECURSIVE ModalEls(_)
ModalEls(ms) ==
  IF ms = <<>> THEN <<>>
  ELSE _getFocusable(modal, Head(ms)) \o ModalEls(Tail(ms))

TabOrder == [k \in 1..NumPageEls |-> El("page", k)] \o ModalEls(ModalOrder)

\* where the browser moves focus on Tab when no handler prevents it
DefaultTab(e, shift) ==
  LET order == TabOrder
      n == Len(order)
      at == {k \in 1..n : order[k] = e}
      \* the elements before a .modal-content in document order
      before == IF e.in \in Modals
                THEN Cardinality({k \in 1..n : order[k].in = "page" \/
                        (e.in = ModalOrder[2] /\ order[k].in = ModalOrder[1])})
                ELSE 0
  IN  IF at # {}
      THEN LET k == CHOOSE k \in at : TRUE
           IN  IF shift THEN order[IF k = 1 THEN n ELSE k - 1]
               ELSE order[IF k = n THEN 1 ELSE k + 1]
      ELSE IF shift THEN order[IF before = 0 THEN n ELSE before]
      ELSE order[IF before >= n THEN 1 ELSE before + 1]

pressTab(shift) ==
  LET tr == TabHandlers(keydown, shift, Trap(activeElement, FALSE))
  IN  /\ activeElement' = IF tr.prevented THEN tr.focus
                          ELSE DefaultTab(activeElement, shift)
      /\ last' = Did("pressTab", IF tr.prevented THEN "trapped" ELSE "default",
                     FALSE)
      /\ UNCHANGED <<srvVars, cacheVars, userVars, navVars, modal, keydown,
                     viewVars, formVars, toast, tasks, apiCall>>

\* the user puts focus on an element by clicking it: an element of the page
\* while no overlay covers it, or a focusable element of a visible modal
clickElement(e) ==
  /\ IF e.in = "page" THEN \A m \in Modals : ~modal[m].visible
     ELSE Rendered(modal, e)
  /\ activeElement' = e
  /\ last' = Did("clickElement", e.in, FALSE)
  /\ UNCHANGED <<srvVars, cacheVars, userVars, navVars, modal, keydown,
                 viewVars, formVars, toast, tasks, apiCall>>

(***************************************************************************)
(* The modals alone: opened, closed and navigated by keyboard, for every   *)
(* number of focusable elements up to MaxFocusable.                        *)
(***************************************************************************)
Clickable ==
  {El("page", k) : k \in 1..NumPageEls} \cup
  {El(m, k) : m \in Modals, k \in 1..MaxFocusable}

InitModal ==
  /\ ClientInit
  /\ srvStadiums = <<>> /\ srvMatches = <<>> /\ srvUsers = <<>>
  /\ savedUser = StoreAbsent
  /\ modal \in {[m \in Modals |-> ClosedModal(n[m])] :
                  n \in [Modals -> 0..MaxFocusable]}

NextModal ==
  \/ \E m \in Modals : openModal(m)
  \/ \E m \in Modals : closeModal(m)
  \/ \E m \in Modals : overlayMousedown(m)
  \/ pressEscape
  \/ \E shift \in BOOLEAN : pressTab(shift)
  \/ \E e \in Clickable : clickElement(e)

SpecModal == InitModal /\ [][NextModal]_vars

(***************************************************************************)
(* The backend: POST /matches creates a match from the body and answers    *)
(* with the stored record.  It stores the fields as sent, under an         *)
(* identifier of its own, and refuses a body whose maxPlayers is no number *)
(* (NaN is sent as null).                                                  *)
(***************************************************************************)
MaxMatches == 1
NewMatchIds == <<"c1", "c2", "c3", "c4">>

SrvPostMatch(t) ==
  /\ t.net = NetSent
  /\ t.req.method = "POST" /\ t.req.path = "/matches"
  /\ LET body == t.req.body
         made == Match(NewMatchIds[Len(srvMatches) + 1], Undef, body.title,
                       Ref(FALSE, body.stadiumId), body.players,
                       body.maxPlayers.n, body.status)
     IN  \/ /\ tasks' = Answer(t, NetFail)
            /\ UNCHANGED srvMatches
         \/ /\ body.maxPlayers.nan
            /\ tasks' = Answer(t, Http(400, JsObj("maxPlayers is required",
                                                  "", NoRec)))
            /\ UNCHANGED srvMatches
         \/ /\ ~body.maxPlayers.nan
            /\ Len(srvMatches) < MaxMatches
            /\ tasks' = Answer(t, Http(201, JsObj("", "", made)))
            /\ srvMatches' = Append(srvMatches, made)
  /\ last' = NoStep
  /\ UNCHANGED <<srvStadiums, srvUsers, cacheVars, userVars, navVars,
                 modalVars, viewVars, formVars, toast, apiCall>>

(***************************************************************************)
(* createMatch (app.js:814-860).                                           *)
(***************************************************************************)
\* the first names of playerNames (app.js:51-56); no user bears one of them,
\* so each has a check box in #new-match-friends
playerNames == <<"Ahmed K.", "Youssef A.", "Omar B.", "Khalid M.">>

\* selectedFriends.length + 1 > maxPlayers, without the creator
TooManyPlayersWithoutCreator(selectedFriends, maxPlayers) ==
  ~maxPlayers.nan /\ Len(selectedFriends) > maxPlayers.n

\* selectedFriends.length + 1 > maxPlayers; a comparison with NaN is false
TooManyPlayers(selectedFriends, maxPlayers) ==
  ~maxPlayers.nan /\ Len(selectedFriends) + 1 > maxPlayers.n

\* parseInt(fee) || 0
FeeOf(text) ==
  IF ParseInt(text).nan \/ ParseInt(text).n = 0 THEN 0 ELSE ParseInt(text).n

\* matchData
MatchData(f) ==
  [title |-> Str(Trim(f.title)), stadiumId |-> f.stadiumId, date |-> f.date,
   time |-> f.time, maxPlayers |-> ParseInt(f.players),
   players |-> <<currentUser.name>> \o f.friends, status |-> "open",
   fee |-> FeeOf(f.fee)]

\* what the user may have entered in the create-match form: a blank title, no
\* stadium, no date, more friends than places, as many players as places,
\* and no number of players
Filled(ti, st, d, pl, fee, k) ==
  MatchForm(ti, st, d, "18:00", pl, fee, SubSeq(playerNames, 1, k))

MatchForms ==
  { Filled(<<" ">>, "s1", "d1", <<"2">>, <<>>, 0),
    Filled(<<"T">>, "", "d1", <<"2">>, <<>>, 0),
    Filled(<<"T">>, "s1", "d1", <<"4">>, <<>>, 4),
    Filled(<<" ", "T">>, "s1", "d1", <<" ", "2", "x">>, <<"5">>, 1),
    Filled(<<"T">>, "s1", "", <<"2">>, <<>>, 0),
    Filled(<<"T">>, "s1", "d1", <<>>, <<>>, 4) }

\* createMatch reading the form f; the stadium is one of the options
createMatch(f) ==
  LET maxPlayers == ParseInt(f.players)
      warn == CASE Str(Trim(f.title)) = "" -> "Please enter a match title!"
                [] f.stadiumId = "" -> "Please select a stadium!"
                [] f.date = "" \/ f.time = "" ->
                     "Please select date and time!"
                [] TooManyPlayers(f.friends, maxPlayers) -> "Too many players!"
                [] OTHER -> ""
  IN  /\ modal["create-match-modal"].visible
      /\ f.stadiumId \in matchForm.options \cup {""}
      /\ matchForm' = [f EXCEPT !.options = matchForm.options]
      /\ IF warn # ""
         THEN /\ toast' = Toast("warn", warn, "")
              /\ last' = Did("createMatch", "invalid", FALSE)
              /\ UNCHANGED tasks
         ELSE IF currentUser = NullUser
         THEN /\ last' = Did("createMatch", "TypeError", TRUE)
              /\ UNCHANGED <<toast, tasks>>
         ELSE /\ CanStart
              /\ tasks' = Start(
                   Task("createMatch", "post", Str(Trim(f.title)),
                        Req("POST", "/matches", "", MatchData(f))))
              /\ last' = Did("createMatch", "sent", FALSE)
              /\ UNCHANGED toast
      /\ UNCHANGED <<srvVars, cacheVars, userVars, navVars, modalVars,
                     viewVars, loginForm, apiCall>>

\* after await apiPost('/matches', matchData)
createMatchPosted ==
  \E t \in Pending :
    /\ Settled(t) /\ t.h = "createMatch" /\ t.pc = "post"
    /\ IF Truthy(ApiPost(t.net).val)
       THEN /\ UiBecomes(Closed(UiNow, "create-match-modal"))
            /\ toast' = Toast("party", "Match created", t.arg)
            /\ tasks' = Replace(t,
                 Task("createMatch", "reload", t.arg,
                      Req("GET", "/matches", "", NoBody)))
            /\ last' = Did("createMatchPosted", "created", FALSE)
       ELSE /\ toast' = Toast("fail", "Failed to create match. Try again.", "")
            /\ tasks' = Finish(t)
            /\ last' = Did("createMatchPosted", "failed", FALSE)
            /\ UNCHANGED modalVars
    /\ UNCHANGED <<srvVars, cacheVars, userVars, navVars, viewVars, formVars,
                   apiCall>>

\* after await loadMatches(): renderMatchesList(), then the title and the
\* fee are cleared
createMatchReloaded ==
  \E t \in Pending :
    /\ Settled(t) /\ t.h = "createMatch" /\ t.pc = "reload"
    /\ tasks' = Finish(t)
    /\ matches' = MatchesAfterLoad(ApiGet(t.net).val, matches)
    /\ IF LoadMatchesThrows(ApiGet(t.net).val) \/ stadiums.t # "arr"
       THEN /\ last' = Did("createMatchReloaded", "TypeError", TRUE)
            /\ UNCHANGED <<matchCards, matchForm>>
       ELSE /\ matchCards' = RenderCards(matches')
            /\ matchForm' = [matchForm EXCEPT !.title = <<>>, !.fee = <<>>]
            /\ last' = Did("createMatchReloaded", "rendered", FALSE)
    /\ UNCHANGED <<srvVars, stadiums, users, userVars, navVars, modalVars,
                   stadiumView, currentMatch, joinBtn, loginForm, toast,
                   apiCall>>

(***************************************************************************)
(* Creating matches, once the application has started: the user, logged   *)
(* in or a guest, opens the modal, fills the form and submits it.          *)
(***************************************************************************)
\* the state in which initApp (app.js:1057-1063) leaves the cache when its
\* three loads have received the lists of the backend
LoadedByInitApp ==
  /\ stadiums = StadiumsAfterLoad(JsArr(srvStadiums), JsArr(<<>>))
  /\ matches = MatchesAfterLoad(JsArr(srvMatches), JsArr(<<>>))
  /\ users = UsersAfterLoad(JsArr(srvUsers), JsArr(<<>>))
  /\ currentUser = CurrentUserAfterLoad(JsArr(srvUsers), savedUser, NullUser)

InitCreate ==
  /\ srvStadiums = <<StA>>
  /\ srvMatches = <<>>
  /\ srvUsers = <<UsA2, UsB>>
  /\ savedUser \in {StoreAbsent, Stored(UsB)}
  /\ LoadedByInitApp
  /\ FreshView
  /\ modal = ModalsClosed(1)

NextCreate ==
  \/ \E t \in Pending : SrvGet(t)
  \/ openModal("create-match-modal")
  \/ closeModal("create-match-modal")
  \/ \E f \in MatchForms : createMatch(f)
  \/ createMatchPosted
  \/ createMatchReloaded
  \/ \E t \in Pending : SrvPostMatch(t)

SpecCreate == InitCreate /\ [][NextCreate]_vars

(***************************************************************************)
(* The startup action (app.js:1252-1274): when initApp has loaded and      *)
(* rendered, it reads the query parameter action and, if there is one,     *)
(* acts on it from a timer.  The user may navigate before the timer fires. *)
(***************************************************************************)
\* the branch taken, with action=login not gated on the snapshot
StartupBranchUngated(action, isUserLoggedIn) ==
  IF action = "login" THEN "login"
  ELSE IF action = "create_match"
  THEN IF isUserLoggedIn THEN "modal" ELSE "notice"
  ELSE IF action = "join_match" THEN "matches"
  ELSE "none"

\* the branch the timer callback takes
StartupBranch(action, isUserLoggedIn) ==
  IF action = "login" /\ ~isUserLoggedIn THEN "login"
  ELSE IF action = "create_match"
  THEN IF isUserLoggedIn THEN "modal" ELSE "notice"
  ELSE IF action = "join_match" THEN "matches"
  ELSE "none"

\* const isUserLoggedIn = !!getSavedUser()
isUserLoggedIn == getSavedUser(savedUser) # NullUser

startupAction(action) ==
  LET branch == IF action = "" THEN "none"
                ELSE StartupBranch(action, isUserLoggedIn)
  IN  /\ last.op # "startupAction"
      /\ last' = Did("startupAction", action,
                     branch = "modal" /\ stadiums.t # "arr")
      /\ IF branch = "modal"
         THEN /\ UiBecomes(Opened(UiNow, "create-match-modal"))
              /\ matchForm' =
                   IF stadiums.t = "arr"
                   THEN [matchForm EXCEPT
                           !.stadiumId = "", !.date = "d1", !.time = "18:00",
                           !.friends = <<>>,
                           !.options = {TemplateText(stadiums.v[k]._id) :
                                          k \in 1..Len(stadiums.v)}]
                   ELSE matchForm
         ELSE UNCHANGED <<modalVars, matchForm>>
      /\ toast' = IF branch = "notice"
                  THEN Toast("lock", "Please log in to create a match.", "")
                  ELSE toast
      /\ NavBecomes(CASE branch \in {"login", "notice"} ->
                           NavigatedTo(NavNow, "login", TRUE)
                      [] branch = "matches" ->
                           NavigatedTo(NavNow, "matches", TRUE)
                      [] OTHER -> NavNow)
      /\ UNCHANGED <<srvVars, cacheVars, userVars, viewVars, loginForm,
                     tasks, apiCall>>

\* the values the query parameter may have; "" is no parameter
StartupActions == {"", "login", "create_match", "join_match", "logout"}

InitStartup ==
  /\ srvStadiums \in StadiumLists
  /\ srvMatches = <<>>
  /\ srvUsers \in UserLists
  /\ savedUser \in {StoreAbsent, StoreCorrupt, Stored(UsA), Stored(UsNoId)}
  /\ LoadedByInitApp
  /\ FreshView
  /\ modal = ModalsClosed(1)

NextStartup ==
  \/ last.op # "startupAction" /\ \E page \in Pages : navigateTo(page)
  \/ \E action \in StartupActions : startupAction(action)

SpecStartup == InitStartup /\ [][NextStartup]_vars

(***************************************************************************)
(* The backend: PUT /users/{id} updates the name and the phone of the      *)
(* user with that identifier and answers with the updated record; it       *)
(* refuses an identifier it does not hold.                                 *)
(***************************************************************************)
SrvPutUser(t) ==
  /\ t.net = NetSent
  /\ t.req.method = "PUT" /\ t.req.path = "/users"
  /\ LET hits == {k \in 1..Len(srvUsers) : srvUsers[k]._id = t.req.id}
         made == User(t.req.id, t.req.body.name, t.req.body.phone)
     IN  \/ /\ tasks' = Answer(t, NetFail)
            /\ UNCHANGED srvUsers
         \/ /\ hits = {}
            /\ tasks' = Answer(t, Http(404, JsObj("User not found", "",
                                                  NoRec)))
            /\ UNCHANGED srvUsers
         \/ /\ hits # {}
            /\ tasks' = Answer(t, Http(200, JsObj("", "", made)))
            /\ srvUsers' = [k \in 1..Len(srvUsers) |->
                              IF k \in hits THEN made ELSE srvUsers[k]]
  /\ last' = NoStep
  /\ UNCHANGED <<srvStadiums, srvMatches, cacheVars, userVars, navVars,
                 modalVars, viewVars, formVars, toast, apiCall>>

(***************************************************************************)
(* saveProfile (app.js:595-648).  The payload is the name and the phone    *)
(* of the edit form, trimmed; the other fields of the form take no part in *)
(* what follows.  A task at "reload" carries the identifier of the record  *)
(* the save returned.                                                      *)
(***************************************************************************)
\* the backend is not asked to create a user once it holds MaxUsers
MaxUsers == 3

\* what the user may have typed into the edit form
ProfileForms ==
  { [name |-> <<"A", " ">>, phone |-> <<"p1">>],
    [name |-> <<"C">>, phone |-> <<" ", "p3">>] }

\* currentUser && currentUser._id
HasIdentifier(u) == u # NullUser /\ u._id # Undef

\* saveProfile reading the form f, up to its await
saveProfile(f) ==
  LET payload == [name |-> Str(Trim(f.name)), phone |-> Str(Trim(f.phone))]
  IN  /\ CanStart
      /\ HasIdentifier(currentUser) \/ Len(srvUsers) < MaxUsers
      /\ tasks' = Start(
           IF HasIdentifier(currentUser)
           THEN Task("saveProfile", "put", "",
                     Req("PUT", "/users", TemplateText(currentUser._id),
                         payload))
           ELSE Task("saveProfile", "post", "",
                     Req("POST", "/users", "", payload)))
      /\ last' = Did("saveProfile", "sent", FALSE)
      /\ UNCHANGED <<srvVars, cacheVars, userVars, navVars, modalVars,
                     viewVars, formVars, toast, apiCall>>

\* after await apiPut(`/users/${currentUser._id}`, payload), and after
\* await apiPost('/users', payload): if (res && !res.error) { currentUser =
\* res; showToast(...); await loadUsers() ...
saveProfileSaved ==
  \E t \in Pending :
    /\ Settled(t) /\ t.h = "saveProfile" /\ t.pc \in {"put", "post"}
    /\ LET res == IF t.pc = "put" THEN ApiPut(t.net).val
                  ELSE ApiPost(t.net).val
       IN  IF Succeeded(res)
           THEN /\ currentUser' = res.rec
                /\ toast' = Toast("ok", IF t.pc = "put" THEN "Profile updated"
                                        ELSE "Profile created", "")
                /\ tasks' = Replace(t,
                     Task("saveProfile", "reload", TemplateText(res.rec._id),
                          Req("GET", "/users", "", NoBody)))
                /\ last' = Did("saveProfileSaved", t.pc, FALSE)
           ELSE /\ toast' = Toast("fail", ErrorOr(res,
                                    IF t.pc = "put"
                                    THEN "Failed to update profile"
                                    ELSE "Failed to create profile"), "")
                /\ tasks' = Finish(t)
                /\ last' = Did("saveProfileSaved", "failed", FALSE)
                /\ UNCHANGED currentUser
    /\ UNCHANGED <<srvVars, cacheVars, savedUser, navVars, modalVars,
                   viewVars, formVars, apiCall>>

\* after await loadUsers(): the body of loadUsers, then renderEditProfile(),
\* which returns at once for a guest
saveProfileReloaded ==
  \E t \in Pending :
    /\ Settled(t) /\ t.h = "saveProfile" /\ t.pc = "reload"
    /\ users' = UsersAfterLoad(ApiGet(t.net).val, users)
    /\ currentUser' =
         CurrentUserAfterLoad(ApiGet(t.net).val, savedUser, currentUser)
    /\ tasks' = Finish(t)
    /\ last' = Did("saveProfileReloaded", t.arg, FALSE)
    /\ UNCHANGED <<srvVars, stadiums, matches, savedUser, navVars, modalVars,
                   viewVars, formVars, toast, apiCall>>

(***************************************************************************)
(* The profile: once the application has started, the user, logged in or   *)
(* a guest, saves the edit form; nobody else changes the users.            *)
(***************************************************************************)
InitProfile ==
  /\ srvStadiums = <<>> /\ srvMatches = <<>>
  /\ srvUsers \in UserLists
  /\ savedUser \in {StoreAbsent, StoreCorrupt, Stored(UsA), Stored(UsNoId)}
  /\ LoadedByInitApp
  /\ FreshView
  /\ modal = ModalsClosed(1)

NextProfile ==
  \/ \E f \in ProfileForms : saveProfile(f)
  \/ saveProfileSaved
  \/ saveProfileReloaded
  \/ \E t \in Pending : SrvGet(t)
  \/ \E t \in Pending : SrvPostUser(t)
  \/ \E t \in Pending : SrvPutUser(t)

SpecProfile == InitProfile /\ [][NextProfile]_vars

(***************************************************************************)
(* Claims about the gateway (SpecApi).                                     *)
(***************************************************************************)
FailedCall(net) ==
  \/ net.st = "fail"
  \/ net.st = "http" /\ net.status \notin 200..299
  \/ net.st = "http" /\ net.body = JsBad

\* C9: no helper throws to its caller.  On a network failure, a non-success
\* status or an undecodable body apiGet and apiDelete resolve to null and
\* apiPost and apiPut to an object with a non-empty error field; otherwise
\* each resolves to the decoded payload.  One fetch per call.
C9_GatewayNeverThrows ==
  apiCall.pc = "done" =>
    /\ ~apiCall.ret.thrown
    /\ apiCall.fetches = 1
    /\ FailedCall(apiCall.net) /\ apiCall.fn \in {"apiGet", "apiDelete"}
         => apiCall.ret.val = JsNull
    /\ FailedCall(apiCall.net) /\ apiCall.fn \in {"apiPost", "apiPut"}
         => /\ apiCall.ret.val.t = "obj"
            /\ apiCall.ret.val.error # ""
    /\ ~FailedCall(apiCall.net) => apiCall.ret.val = apiCall.net.body

\* a 404 whose body names the error was posted, and the caller holds that text
C9_Witness ==
  /\ apiCall.pc = "done"
  /\ apiCall.fn = "apiPost"
  /\ apiCall.net = Http(404, JsObj("", "Not found", NoRec))
  /\ apiCall.ret = Returned(JsObj("Not found", "", NoRec))

(***************************************************************************)
(* Claims about the Domain Cache (SpecCache).                              *)
(***************************************************************************)
\* the step in which the suspended load t of handler h resumes and finishes
LoadStep(h, t) == Settled(t) /\ t.h = h /\ tasks' = Finish(t)
LoadResult(t) == ApiGet(t.net).val

\* the cache record built from the response record r
BuiltFrom(m, r) ==
  /\ m._id = r._id
  /\ m.title = r.title
  /\ m.players = r.players
  /\ m.maxPlayers = r.maxPlayers
  /\ m.status = r.status
  /\ m.stadiumId = Ref(FALSE, r.stadiumId._id)
  /\ m._stadium = r.stadiumId

FailedLoadFrame(h, t) ==
  LoadStep(h, t) /\ LoadResult(t) = JsNull
    => UNCHANGED <<stadiums, matches, users, currentUser>>

Ids == {"s1", "s2", "m1", "m2", "m3"}

UsersLoadStep(t) ==
  /\ Settled(t)
  /\ tasks' = Finish(t)
  /\ t.h = "loadUsers" \/ (t.h = "submitLogin" /\ t.pc = "reload")

\* C3: when loadUsers receives a list while the session store holds a
\* snapshot with identifier X, currentUser becomes the record of that list
\* whose identifier is X; with no such record, no snapshot or no identifier
\* in it, currentUser becomes the guest state.
C3_Rehydrate ==
  [][\A t \in Pending :
       UsersLoadStep(t) /\ LoadResult(t).t = "arr" =>
         LET list == LoadResult(t).v
             hits == IF savedUser.kind = "json"
                     THEN {k \in 1..Len(list) :
                             /\ savedUser.user._id # Undef
                             /\ list[k]._id = savedUser.user._id}
                     ELSE {}
         IN  IF hits # {}
             THEN \E k \in hits : currentUser' = list[k]
             ELSE currentUser' = NullUser]_vars

\* a load has replaced the user of the snapshot by the newer record with its
\* identifier
C3_Witness ==
  /\ last = Did("loadUsersResume", "arr", FALSE)
  /\ savedUser = Stored(UsA)
  /\ currentUser = UsA2

\* C6: submitLogin with every field filled and the phone of a cached user
\* makes that user currentUser, saves it as the snapshot and sends nothing.
C6_LoginExisting ==
  [][/\ last'.op = "submitLogin"
     /\ Trim(loginForm'.name) # <<>> /\ loginForm'.age # ""
     /\ loginForm'.position # "" /\ loginForm'.skillLevel # ""
     /\ \E k \in 1..Len(users.v) : <<users.v[k].phone>> = Trim(loginForm'.phone)
     => /\ \E k \in 1..Len(users.v) :
             /\ <<users.v[k].phone>> = Trim(loginForm'.phone)
             /\ \A j \in 1..(k - 1) :
                  <<users.v[j].phone>> # Trim(loginForm'.phone)
             /\ currentUser' = users.v[k]
             /\ savedUser' = Stored(users.v[k])
        /\ tasks' = tasks]_vars

\* a known user has logged in by phone, under a name other than the typed one
C6_Witness ==
  /\ last = Did("submitLogin", "existing", FALSE)
  /\ Str(Trim(loginForm.phone)) = "p1"
  /\ currentUser = UsA2
  /\ savedUser = Stored(UsA2)
  /\ \A t \in Pending : t.req.path # "/users" \/ t.req.method # "POST"

(***************************************************************************)
(* Claims about stadiums and booking (SpecStadium).                        *)
(***************************************************************************)
\* every stadium the backend holds, the cache holds or the detail page shows
KnownStadiums ==
  {srvStadiums[k] : k \in 1..Len(srvStadiums)} \cup
  (IF stadiums.t = "arr" THEN {stadiums.v[k] : k \in 1..Len(stadiums.v)}
   ELSE {}) \cup
  (IF currentStadium = NotFound THEN {} ELSE {currentStadium})

\* the request of task t asks for a slot that its stadium already lists as
\* unavailable
AsksUnavailable(t) ==
  /\ t.h = "bookStadium"
  /\ \E k \in 1..Len(srvStadiums) :
       /\ srvStadiums[k]._id = t.req.id
       /\ t.req.body.time \in srvStadiums[k].unavailableSlots

Refused(net) == net.st = "fail" \/ ~Ok(net.status)

RefusedAsFull(t) ==
  /\ t.h \in {"joinMatch", "joinMatchById"} /\ t.pc = "post"
  /\ t.net.st = "http" /\ ~Ok(t.net.status)
  /\ t.net.body.t = "obj" /\ t.net.body.error = "Match is full"

\* the handler of task t takes its step after the await
Resumes(t) ==
  \/ tasks' = Finish(t)
  \/ \E u \in BagToSet(tasks') : u.pc # t.pc /\ tasks' = Replace(t, u)

\* C1: every cached match has at most maxPlayers players, and a join that
\* is attempted on a match whose players have reached maxPlayers fails: the
\* handler does not tell the user they joined, and the players of the cached
\* matches stay as they were.
C1_JoinFullFails ==
  /\ [](\A k \in 1..Len(matches.v) :
          Len(matches.v[k].players) <= matches.v[k].maxPlayers)
  /\ [][\A t \in Pending :
          RefusedAsFull(t) /\ Resumes(t)
            => /\ ~(toast'.icon = "party" /\ toast'.text = "You joined")
               /\ matches' = matches]_vars

(***************************************************************************)
(* Claims about the modals (SpecModal).                                    *)
(***************************************************************************)
\* m is the one modal that is open
OnlyOpen(m) == modal[m].visible /\ \A o \in Modals \ {m} : ~modal[o].visible

\* C5: while a modal is open, a press of Tab or Shift+Tab leaves focus
\* inside that modal, whatever the number of its focusable elements and
\* whichever element holds focus; and closing a modal puts focus back on the
\* element that had it before the modal was opened.
C5_FocusTrap ==
  /\ [][\A m \in Modals :
          last'.op = "pressTab" /\ OnlyOpen(m) => activeElement'.in = m]_vars
  /\ [][\A m \in Modals :
          /\ last'.op \in {"closeModal", "overlayMousedown", "pressEscape"}
          /\ modal[m].visible /\ ~modal'[m].visible
          /\ modal[m].prev # NoEl
          => activeElement' = modal[m].prev]_vars

(***************************************************************************)
(* Claims about creating matches (SpecCreate).                             *)
(***************************************************************************)
\* C7: when the selected friends plus the creator are more than maxPlayers,
\* createMatch shows a notice, sends nothing and leaves the cached matches
\* and the backend's matches as they were.
C7_NoCallWhenTooMany ==
  [][/\ last'.op = "createMatch"
     /\ ~ParseInt(matchForm'.players).nan
     /\ Len(matchForm'.friends) + 1 > ParseInt(matchForm'.players).n
     => /\ tasks' = tasks
        /\ matches' = matches
        /\ srvMatches' = srvMatches
        /\ toast'.icon = "warn"]_vars

\* a logged-in user has submitted a complete form with maxPlayers 4 and four
\* friends selected, and nothing has been sent
C7_Witness ==
  /\ last = Did("createMatch", "invalid", FALSE)
  /\ currentUser # NullUser
  /\ Trim(matchForm.title) # <<>> /\ matchForm.stadiumId # ""
  /\ matchForm.date # "" /\ matchForm.time # ""
  /\ ParseInt(matchForm.players) = Num(4)
  /\ Len(matchForm.friends) = 4
  /\ toast = Toast("warn", "Too many players!", "")
  /\ tasks = EmptyBag

\* the bodies of the POST /matches requests that are under way
MatchBodies ==
  {t.req.body : t \in {u \in Pending : u.req.method = "POST" /\
                                       u.req.path = "/matches"}}

\* C8: status follows the player count, for every cached match and every
\* match the client sends for creation: "open" only with fewer players than
\* maxPlayers, and "full" with as many.
C8_StatusDerived ==
  /\ \A k \in 1..Len(matches.v) :
       LET m == matches.v[k]
       IN  /\ m.status = "open" => Len(m.players) < m.maxPlayers
           /\ Len(m.players) >= m.maxPlayers => m.status = "full"
  /\ \A b \in MatchBodies :
       ~b.maxPlayers.nan =>
         /\ b.status = "open" => Len(b.players) < b.maxPlayers.n
         /\ Len(b.players) >= b.maxPlayers.n => b.status = "full"


(***************************************************************************)
(* Claims about reloading after a mutation.                                *)
(***************************************************************************)
\* C11: after a successful mutation the collection it affects is fetched
\* again before the handler finishes: a handler whose POST has succeeded
\* does not return at that step, it goes on to the reload.
C11_ReloadAfterMutation ==
  [][\A t \in Pending :
       /\ t.pc = "post" /\ Settled(t) /\ Succeeded(ApiPost(t.net).val)
       /\ ~last'.fault
       => tasks' # Finish(t)]_vars


(***************************************************************************)
(* Claims about validation before a call.                                  *)
(***************************************************************************)
\* the join handlers have just sent the request of task t
JoinJustSent(t) ==
  /\ last'.op \in {"joinMatch", "joinMatchById"}
  /\ t.h = last'.op /\ t.pc = "post" /\ t.net = NetSent
  /\ tasks' = Start(t)

\* C12: a join that the client can see to be invalid is caught before any
\* network call: joinMatch and joinMatchById send no join request for a
\* match whose cached players already hold the current user's name or have
\* reached maxPlayers.
C12_JoinValidated ==
  [][\A t \in BagToSet(tasks') :
       JoinJustSent(t) =>
         LET m == GetByIdIn(matches, t.arg)
         IN  m # NotFound =>
               /\ ~Includes(m.players, currentUser.name)
               /\ Len(m.players) < m.maxPlayers]_vars


(***************************************************************************)
(* Claims about callers of the gateway.                                    *)
(***************************************************************************)
\* the value apiPost has returned is a failure value: it carries error
CarriesError(result) == result.t = "obj" /\ result.error # ""

\* C13: when the POST of joinMatch, joinMatchById or createMatch resolves
\* to an object carrying error, the handler shows a failure notice and no
\* success notice, returns without a reload, and leaves its modal and its
\* form as they are.
C13_CallerBranches ==
  [][\A t \in Pending :
       /\ t.h \in {"joinMatch", "joinMatchById", "createMatch"}
       /\ t.pc = "post" /\ Settled(t)
       /\ CarriesError(ApiPost(t.net).val)
       /\ Resumes(t)
       => /\ toast'.icon \in {"warn", "fail"}
          /\ tasks' = Finish(t)
          /\ UNCHANGED <<modal, keydown, matchForm>>]_vars


(***************************************************************************)
(* Claims about the router (SpecNav).                                      *)
(***************************************************************************)
\* C14: navigateTo(p) from q with p # q pushes q and makes p current;
\* navigateTo(p, false) and navigateTo(q) from q leave the stack as it is;
\* goBack pops the top of the stack and makes it current without pushing,
\* or makes 'home' current when the stack is empty; so navigateTo(p)
\* followed by goBack is back on q with the stack as before.
C14_NavigateLifo ==
  /\ [][last'.op = "navigateTo" =>
          /\ currentPage' = last'.res
          /\ pageHistory' = IF currentPage # last'.res
                            THEN Append(pageHistory, currentPage)
                            ELSE pageHistory]_vars
  /\ [][last'.op = "goBack" =>
          IF pageHistory # <<>>
          THEN /\ currentPage' = pageHistory[Len(pageHistory)]
               /\ pageHistory' = SubSeq(pageHistory, 1, Len(pageHistory) - 1)
          ELSE /\ currentPage' = "home"
               /\ pageHistory' = <<>>]_vars
  /\ [](\A p \in Pages :
          /\ NavigatedTo(NavNow, p, FALSE) = Nav(p, pageHistory)
          /\ p # currentPage =>
               WentBack(NavigatedTo(NavNow, p, TRUE)) = NavNow)

\* the user has gone back to a page other than home, with pages still on
\* the stack
C14_Witness ==
  /\ last = Did("goBack", "popped", FALSE)
  /\ currentPage # "home"
  /\ pageHistory # <<>>


\* C20: the top of the history stack differs from the current page and no
\* two adjacent entries of the stack are equal, whatever navigateTo, goBack
\* and showSection calls have been made; so one goBack leaves the page.
C20_NoRepeatedPage ==
  /\ pageHistory # <<>> => pageHistory[Len(pageHistory)] # currentPage
  /\ \A k \in 1..(Len(pageHistory) - 1) : pageHistory[k] # pageHistory[k + 1]


(***************************************************************************)
(* Claims about closing modals (SpecModal).                                *)
(***************************************************************************)
\* C15: closing a modal that is already closed, or was never opened, does
\* not throw and changes nothing: afterwards the modal has no overlay-click
\* handler and no key handler registered, it is marked aria-hidden, and
\* the modal fields, the listeners and the focus are what they were.
C15_CloseIdempotent ==
  [][\A m \in Modals :
       last'.op = "closeModal" /\ last'.res = m /\ ~modal[m].visible
       => /\ ~last'.fault
          /\ ~modal'[m].overlayClick /\ ~modal'[m].keyHandler
          /\ modal'[m].ariaHidden
          /\ modal'[m].mousedown = 0
          /\ \A k \in 1..Len(keydown') : keydown'[k] # m
          /\ UNCHANGED <<modal, keydown, activeElement>>]_vars


(***************************************************************************)
(* Claims about what changes the cache.                                    *)
(***************************************************************************)
\* the load of handler h resumes with a decoded response
LoadReceives(h, t) ==
  /\ t \in Pending /\ t.h \in h /\ Settled(t) /\ tasks' = Finish(t)
  /\ t.net.st = "http" /\ Ok(t.net.status)

ReceivedArray(t) ==
  /\ Settled(t) /\ t.net.st = "http" /\ Ok(t.net.status)
  /\ t.net.body.t = "arr"

\* C17: a load in flight is never cancelled: a pending load stays pending
\* until its own response resumes it, whatever else is started, answered
\* or navigated to meanwhile, and when it resumes with an array it replaces
\* the collection by that response, so the response that resolves last
\* decides the content of the cache.
C17_LateResponseWins ==
  /\ [][\A t \in Pending :
          t.h \in {"loadMatches", "loadUsers"} =>
            \/ t \in BagToSet(tasks')
            \/ \E u \in BagToSet(tasks') :
                 u.net # NetSent /\ tasks' = Answer(t, u.net)
            \/ Settled(t) /\ tasks' = Finish(t)
               /\ last'.op \in {"loadMatchesResume", "loadUsersResume"}]_vars
  /\ [][\A t \in Pending :
          /\ t.h = "loadMatches" /\ ReceivedArray(t)
          /\ last'.op = "loadMatchesResume" /\ tasks' = Finish(t)
          => matches' = JsArr(NormalizeMatches(t.net.body.v))]_vars
  /\ [][\A t \in Pending :
          /\ t.h = "loadUsers" /\ ReceivedArray(t)
          /\ last'.op = "loadUsersResume" /\ tasks' = Finish(t)
          => users' = t.net.body]_vars

\* the list was rendered while the cache held m1 as full, which m1 stays at
\* the backend, and a load that was answered earlier has since resumed: the
\* cache holds m1 as open again
C17_Witness ==
  /\ last = Did("loadMatchesResume", "arr", FALSE)
  /\ tasks = EmptyBag
  /\ \E k \in 1..Len(matchCards) :
       matchCards[k].id = "m1" /\ ~matchCards[k].join
  /\ \E k \in 1..Len(srvMatches) :
       srvMatches[k]._id = "m1" /\ srvMatches[k].status = "full"
  /\ \E k \in 1..Len(matches.v) :
       matches.v[k]._id = "m1" /\ matches.v[k].status = "open"


(***************************************************************************)
(* Claims about the startup action (SpecStartup).                          *)
(***************************************************************************)
\* C18: the startup action is gated on a session snapshot: action=login
\* navigates to login only when getSavedUser finds no snapshot;
\* action=create_match opens the create-match modal when there is one, and
\* otherwise shows a notice and navigates to login with the modal closed;
\* action=join_match navigates to matches; any other value does nothing.
C18_StartupGated ==
  [][last'.op = "startupAction" =>
       LET snapshot == getSavedUser(savedUser) # NullUser
           toLogin == /\ currentPage' = "login"
                      /\ pageHistory' = IF currentPage = "login" THEN pageHistory
                                        ELSE Append(pageHistory, currentPage)
           opens == /\ modal'["create-match-modal"].visible
                    /\ ~modal["create-match-modal"].visible
       IN  CASE last'.res = "login" ->
                  /\ UNCHANGED <<modalVars, toast>>
                  /\ IF snapshot THEN UNCHANGED navVars ELSE toLogin
             [] last'.res = "create_match" ->
                  IF snapshot
                  THEN opens /\ UNCHANGED <<navVars, toast>>
                  ELSE /\ toLogin /\ UNCHANGED modalVars
                       /\ toast' # toast /\ toast'.icon = "lock"
             [] last'.res = "join_match" ->
                  /\ currentPage' = "matches"
                  /\ UNCHANGED <<modalVars, toast>>
             [] OTHER ->
                  UNCHANGED <<navVars, modalVars, toast, formVars>>]_vars

\* action=create_match has found no readable snapshot: the notice is shown,
\* the login page is current and the modal is closed
C18_Witness ==
  /\ last = Did("startupAction", "create_match", FALSE)
  /\ getSavedUser(savedUser) = NullUser
  /\ toast.icon = "lock"
  /\ currentPage = "login"
  /\ ~modal["create-match-modal"].visible


(***************************************************************************)
(* Claims about the time slots (SpecStadium).                              *)
(***************************************************************************)
\* C19: the stadium detail page holds one entry per slot of the stadium, in
\* slot order, and an entry takes clicks exactly when its slot is not in
\* unavailableSlots: a click marks that slot, and only that slot, selected;
\* an unavailable slot is never the selected one, and at most one slot is
\* selected.
C19_SlotsSelectable ==
  /\ [](currentStadium # NotFound =>
          /\ Len(timeSlots) = Len(currentStadium.slots)
          /\ \A k \in 1..Len(timeSlots) :
               /\ timeSlots[k].label = currentStadium.slots[k]
               /\ timeSlots[k].unavailable <=>
                    timeSlots[k].label \in currentStadium.unavailableSlots
               /\ timeSlots[k].selected => ~timeSlots[k].unavailable
          /\ Cardinality({k \in 1..Len(timeSlots) :
                            timeSlots[k].selected}) <= 1)
  /\ [][last'.op = "selectTimeSlot" =>
          /\ Len(timeSlots') = Len(timeSlots)
          /\ \A k \in 1..Len(timeSlots) :
               /\ timeSlots'[k].label = timeSlots[k].label
               /\ timeSlots'[k].unavailable = timeSlots[k].unavailable
               /\ timeSlots'[k].selected <=>
                    (timeSlots[k].label = last'.res /\ ~timeSlots[k].unavailable)]_vars
  /\ [][last'.op \in {"openStadiumDetail", "bookStadiumResume"}
          /\ currentStadium' # NotFound /\ timeSlots' # timeSlots
          => \A k \in 1..Len(timeSlots') : ~timeSlots'[k].selected]_vars

\* the stadium with '09:00' taken is shown: '09:00' is marked unavailable
\* and '11:00' has been clicked and is selected
C19_Witness ==
  /\ last = Did("selectTimeSlot", "11:00", FALSE)
  /\ currentStadium = StB
  /\ timeSlots = <<Slot("09:00", TRUE, FALSE), Slot("11:00", FALSE, TRUE)>>


(***************************************************************************)
(* Claims about sequences of opens and closes of a modal (SpecModal).      *)
(***************************************************************************)
\* C21: whenever a close call on a modal returns, whatever opens and closes
\* came before it (two opens in a row included), no keydown handler of that
\* modal is left on document, no mousedown handler is left on its overlay,
\* and the focus is on an element outside the modal.
C21_CloseLeavesNothing ==
  [][\A m \in Modals :
       last'.op = "closeModal" /\ last'.res = m
       => /\ \A k \in 1..Len(keydown') : keydown'[k] # m
          /\ modal'[m].mousedown = 0
          /\ activeElement'.in # m]_vars


(***************************************************************************)
(* Claims about the guest state (SpecJoin; createMatch is in SpecCreate).  *)
(***************************************************************************)
\* C22: while currentUser is null no handler ends in an exception:
\* openMatchDetail of a cached match completes and shows the page
\* 'match-detail', and joinMatch, joinMatchById and createMatch end with a
\* notice shown and without a request sent (so none that carries an
\* undefined player name).
C22_GuestNoFault ==
  [][currentUser = NullUser
     => /\ ~last'.fault
        /\ last'.op = "openMatchDetail" /\ last'.res # "missing"
           => currentPage' = "match-detail" /\ currentMatch' # NotFound
        /\ last'.op \in {"joinMatch", "joinMatchById", "createMatch"}
           => /\ tasks' = tasks
              /\ toast' # NoToast]_vars


(***************************************************************************)
(* Claims about saving the profile (SpecProfile).                          *)
(***************************************************************************)
\* C23: when saveProfile completes after a successful save, that is when
\* it has reloaded the users, currentUser is a user record with the
\* identifier of the record the server returned for the save, whether the
\* save was an update or the creation of a user; the reload does not leave
\* currentUser null.
C23_SavedUserIsCurrent ==
  [][last'.op = "saveProfileReloaded"
     => /\ currentUser' # NullUser
        /\ TemplateText(currentUser'._id) = last'.res]_vars


(***************************************************************************)
(* Claims about the match createMatch sends (SpecCreate).                  *)
(***************************************************************************)
\* C24: every body createMatch sends to POST /matches has a positive
\* integer as maxPlayers, has as players the current user's name followed
\* by the selected friends, no name twice, and has no more players than
\* maxPlayers, whatever the form holds.
C24_PayloadWellFormed ==
  [][\A t \in BagToSet(tasks') :
       /\ last'.op = "createMatch" /\ last'.res = "sent"
       /\ t.h = "createMatch" /\ t.pc = "post" /\ t.net = NetSent
       /\ tasks' = Start(t)
       => LET body == t.req.body
          IN  /\ ~body.maxPlayers.nan /\ body.maxPlayers.n > 0
              /\ body.players = <<currentUser.name>> \o matchForm'.friends
              /\ \A j, k \in 1..Len(body.players) :
                   body.players[j] = body.players[k] => j = k
              /\ Len(body.players) <= body.maxPlayers.n]_vars


(***************************************************************************)
(* Claims about where joining is offered (SpecJoin).                       *)
(***************************************************************************)
\* the logged-in user may be offered to join match m
Joinable(m) ==
  ~Includes(m.players, currentUser.name) /\ m.status # "full"

\* C25: for a logged-in user, a match card just rendered has a Join button
\* only if the user's name is not among the players of its match and the
\* match is not full, and the detail page just shown has a join button
\* that takes clicks only under the same condition; a match the user has
\* joined offers no join in either view.
C25_JoinOfferedAlike ==
  [][currentUser # NullUser
     => /\ last'.op \in {"setMatchTab", "joinMatchByIdReloaded"}
             /\ ~last'.fault
           => \A k \in 1..Len(matchCards') :
                matchCards'[k].join => Joinable(matches'.v[k])
        /\ last'.op = "openMatchDetail" /\ last'.res = "shown"
           => (joinBtn' = "join" => Joinable(currentMatch'))]_vars

====
